---- MODULE Spec2Model ----
(***************************************************************************)
(* human-typer: the TypingThread worker (typing_thread.py), the HumanTyper  *)
(* controller (main_window.py) that starts, stops and resumes it, and the  *)
(* delay and rhythm computations of the command line tool (cli.py).        *)
(*                                                                         *)
(* Characters are one-character strings.  Probabilities are integers in    *)
(* units of 10^-9, the rhythm multiplier in units of 10^-5, random draws   *)
(* of random.random() in units of 10^-3, delays in units of 10^-3 s.       *)
(***************************************************************************)
EXTENDS Integers, Sequences, FiniteSets, TLC

\* ------------------------------------------------------------------ bounds
\* Longest text handed to a TypingThread constructed directly.
MaxLen == 4
\* Longest text in the controller's text box.
MaxGuiLen == 2
\* Workers the controller creates in one behaviour.
MaxRuns == 2
\* Longest text of the worker whose termination is checked.
MaxLiveLen == 3
\* The longest text given to the command line tool.
MaxCliLen == 2
\* How often the watched file appears, and how often watch mode types.
MaxFiles == 2
MaxTypings == 2
\* Length of the text over which the typo streak is followed.
StreakLen == 9

\* ------------------------------------------------------------- characters
\* A non-ASCII letter (typed through the clipboard, no key of the table).
Hangul == "U+AC00"

LowerLetters ==
    {"a", "b", "c", "d", "e", "f", "g", "h", "i", "j", "k", "l", "m",
     "n", "o", "p", "q", "r", "s", "t", "u", "v", "w", "x", "y", "z"}

Digits == {"0", "1", "2", "3", "4", "5", "6", "7", "8", "9"}

\* str.upper() on the lowercase letters.
UpperOf ==
    [c \in LowerLetters |->
        CASE c = "a" -> "A" [] c = "b" -> "B" [] c = "c" -> "C" [] c = "d" -> "D"
          [] c = "e" -> "E" [] c = "f" -> "F" [] c = "g" -> "G" [] c = "h" -> "H"
          [] c = "i" -> "I" [] c = "j" -> "J" [] c = "k" -> "K" [] c = "l" -> "L"
          [] c = "m" -> "M" [] c = "n" -> "N" [] c = "o" -> "O" [] c = "p" -> "P"
          [] c = "q" -> "Q" [] c = "r" -> "R" [] c = "s" -> "S" [] c = "t" -> "T"
          [] c = "u" -> "U" [] c = "v" -> "V" [] c = "w" -> "W" [] c = "x" -> "X"
          [] c = "y" -> "Y" [] c = "z" -> "Z"]

UpperLetters == {UpperOf[c] : c \in LowerLetters}

\* str.isupper(), str.isalnum(), str.lower(), str.upper() of one character.
IsUpper(c) == c \in UpperLetters

IsAlnum(c) == c \in LowerLetters \cup UpperLetters \cup Digits \cup {Hangul}

Lower(c) == IF c \in UpperLetters THEN CHOOSE l \in LowerLetters : UpperOf[l] = c ELSE c

Upper(c) == IF c \in LowerLetters THEN UpperOf[c] ELSE c

\* str.isdigit()
IsDigit(c) == c \in Digits

\* ord(char) < 128
IsAscii(c) == c # Hangul

\* Config.ADJACENT_KEYS
ADJACENT_KEYS ==
    ("a" :> <<"s", "q", "w", "z">>) @@ ("b" :> <<"v", "g", "h", "n">>) @@
    ("c" :> <<"x", "d", "f", "v">>) @@ ("d" :> <<"s", "e", "r", "f", "c", "x">>) @@
    ("e" :> <<"w", "r", "s", "d", "f">>) @@ ("f" :> <<"d", "r", "t", "g", "v", "c">>) @@
    ("g" :> <<"f", "t", "y", "h", "b", "v">>) @@ ("h" :> <<"g", "y", "u", "j", "n", "b">>) @@
    ("i" :> <<"u", "j", "k", "l", "o">>) @@ ("j" :> <<"h", "u", "i", "k", "n", "m">>) @@
    ("k" :> <<"j", "i", "o", "l", "m">>) @@ ("l" :> <<"k", "o", "p">>) @@
    ("m" :> <<"n", "j", "k">>) @@ ("n" :> <<"b", "h", "j", "m">>) @@
    ("o" :> <<"i", "k", "l", "p">>) @@ ("p" :> <<"o", "l">>) @@
    ("q" :> <<"w", "a">>) @@ ("r" :> <<"e", "d", "f", "t">>) @@
    ("s" :> <<"a", "w", "e", "d", "x", "z">>) @@ ("t" :> <<"r", "f", "g", "y">>) @@
    ("u" :> <<"y", "h", "j", "i">>) @@ ("v" :> <<"c", "f", "g", "b">>) @@
    ("w" :> <<"q", "a", "s", "e">>) @@ ("x" :> <<"z", "s", "d", "c">>) @@
    ("y" :> <<"t", "g", "h", "u">>) @@ ("z" :> <<"a", "s", "x">>) @@
    ("1" :> <<"2", "q">>) @@ ("2" :> <<"1", "3", "q", "w">>) @@
    ("3" :> <<"2", "4", "w", "e">>) @@ ("4" :> <<"3", "5", "e", "r">>) @@
    ("5" :> <<"4", "6", "r", "t">>) @@ ("6" :> <<"5", "7", "t", "y">>) @@
    ("7" :> <<"6", "8", "y", "u">>) @@ ("8" :> <<"7", "9", "u", "i">>) @@
    ("9" :> <<"8", "0", "i", "o">>) @@ ("0" :> <<"9", "o", "p">>)

\* ------------------------------------------------------ program constants
\* Config.TYPO_PROBABILITY 0.02, TYPO_STREAK_PROBABILITY 0.35 (units of 10^-9).
TYPO_PROBABILITY == 20000000
TYPO_STREAK_PROBABILITY == 350000000
\* Config.TYPO_STREAK_DECAY 0.6 as a fraction.
TYPO_STREAK_DECAY_NUM == 3
TYPO_STREAK_DECAY_DEN == 5
\* The literal 0.01 of _update_typo_streak (units of 10^-9).
STREAK_EPSILON == 10000000
\* Config.RHYTHM_MIN 0.6, RHYTHM_MAX 1.8 and the initial 1.0 (units of 10^-5).
RHYTHM_MIN == 60000
RHYTHM_MAX == 180000
RHYTHM_START == 100000
\* Config.RHYTHM_DRIFT_RATE 0.08 (units of 10^-2), RHYTHM_CHANGE_PROBABILITY 0.1
\* (units of 10^-3).
RHYTHM_DRIFT_RATE == 8
RHYTHM_CHANGE_PROBABILITY == 100
\* Config.DEFAULT_MIN_DELAY_MS, DEFAULT_MAX_DELAY_MS.
DEFAULT_MIN_DELAY_MS == 15
DEFAULT_MAX_DELAY_MS == 70
\* Config.MODIFIER_* (units of 10^-2).
MODIFIER_PUNCTUATION == 180
MODIFIER_SPECIAL == 200
MODIFIER_CAPITAL == 140
MODIFIER_SPACE == 110
MODIFIER_NEWLINE == 400
MODIFIER_DIGIT == 130
MODIFIER_REPEATED == 60
MODIFIER_COMMON == 85
\* The literal 1.0 a modifier starts from (units of 10^-4, the unit of a
\* modifier returned), and one unit of 10^-2 in that unit.
MODIFIER_ONE == 10000
MODIFIER_UNIT == 100
\* The grave accent of SPECIAL_CHARS, which a string of this language cannot
\* hold, written as a token.
Backtick == "<grave>"
\* Config.COMMON_CHARS, PUNCTUATION_CHARS, SPECIAL_CHARS.
COMMON_CHARS ==
    <<"e", "t", "a", "o", "i", "n", "s", "h", "r", "l", "d", "u", "c", "m", "w",
      "f", "g", "y", "p", "b", "v", "k", "j", "x", "q", "z">>
PUNCTUATION_CHARS == {".", ",", "!", "?", ";", ":", "'", "\"", "-"}
SPECIAL_CHARS ==
    {"@", "#", "$", "%", "^", "&", "*", "(", ")", "_", "+", "=", "[", "]", "{",
     "}", "\\", "|", "<", ">", "/", Backtick, "~"}
\* config.COMMON_CHARS[:10]
CommonTop == {COMMON_CHARS[k] : k \in 1..10}

\* ------------------------------------------------------------ input sets
\* The characters texts are built from: a letter of the adjacency table, a
\* character that is not alphanumeric, an alphanumeric character with no
\* adjacency entry.
Alphabet == {"p", " ", Hangul}

TextsUpTo(n) == UNION {[1..k -> Alphabet] : k \in 0..n}

\* The characters typed into the controller's text box: a letter of the
\* adjacency table and an alphanumeric character with no adjacency entry.
GuiAlphabet == {"p", Hangul}

GuiTextsUpTo(n) == UNION {[1..k -> GuiAlphabet] : k \in 0..n}

\* Draws of random.random() (units of 10^-9) deciding a typo.
TypoDraws == {10000000, 100000000, 500000000}
\* Draws of random.random() (units of 10^-3) for the rhythm's direction flip and
\* for its drift.
FlipDraws == {50, 500}
DriftDraws == {500}
\* Draws of random.random() (units of 10^-3) for a rhythm updated on its own:
\* a flip and none; no drift, a step of 0.04 and one of 0.07, which reach both
\* bounds exactly and overshoot them.
RhythmFlips == {50, 500}
RhythmDrifts == {0, 500, 875}
\* Delay bounds in milliseconds, as set in the spin boxes, given on the command
\* line or passed to TypingThread.
DelayValues == {1, 15, 70}
\* Draws of random.expovariate (never negative; units of 10^-3 s): nothing,
\* less than every range, exactly the range from 15 to 70, more than every range.
ExtraDraws == {0, 5, 55, 1000}
\* The characters delays are computed for: a common letter in both cases, a
\* letter that is not among the ten most common in both cases, a digit, space,
\* newline, tab, a punctuation mark, a special character, a non-ASCII letter.
DelayChars == {"e", "E", "p", "P", "5", " ", "\n", "\t", ".", "@", Hangul}

\* ------------------------------------------------------------------ state
VARIABLES
    \* TypingThread
    t_text, t_start_pos, t_stop_flag, t_current_pos, t_prev_char,
    t_typo_streak, t_typo_buffer, t_rhythm, t_rhythm_direction,
    \* run(): the loop variable and the position in the code
    i, pc,
    \* what the worker has sent: keystrokes, signals emitted
    keys, notes,
    \* HumanTyper
    h_typing_thread, h_current_pos, h_last_text, edit_text,
    start_enabled, stop_enabled, edit_enabled,
    \* the handler the GUI thread is blocked in, the signals queued for it
    h_pc, pending,
    \* history: workers created so far; the previous worker as it was cleaned up,
    \* forgotten when the text is edited; whether a worker has been created for
    \* the text box's content with no edit since
    runs, prev, unedited,
    \* TypingThread.min_delay, max_delay
    t_min_delay, t_max_delay,
    \* history: how often run() has read the stop flag; what the worker had sent
    \* when stop() was first called on it
    flag_reads, at_stop,
    \* HumanTyper: the values of the two delay spin boxes
    min_delay_spin, max_delay_spin,
    \* cli.py, human_type: whether it has been entered, its delay bounds, its
    \* rhythm
    c_pc, c_min_delay, c_max_delay, c_rhythm, c_rhythm_direction,
    \* the last base delay computed, by both implementations
    base,
    \* history: how often _should_make_typo has drawn from random.random()
    typo_draws,
    \* human_type: its prev_char
    c_prev_char,
    \* the last character delay computed, by the worker and by human_type
    char_delay,
    \* HumanTyper: what the status label says; whether a target window is known
    \* (the detected window label or the fixed window title holds one)
    h_status, h_window,
    \* main: the parsed arguments of the call, the process's return value
    c_args, c_ret,
    \* human_type: its text, how many characters it has typed, the keys it sent
    c_text, c_i, c_keys,
    \* watch mode: the watched file, and which of its appearances were typed
    watched, typed

thread_vars ==
    <<t_text, t_start_pos, t_stop_flag, t_current_pos, t_prev_char,
      t_typo_streak, t_typo_buffer, t_rhythm, t_rhythm_direction, i, pc,
      keys, notes, t_min_delay, t_max_delay, flag_reads, at_stop, typo_draws>>

spin_vars == <<min_delay_spin, max_delay_spin>>

cli_vars ==
    <<c_pc, c_min_delay, c_max_delay, c_rhythm, c_rhythm_direction, c_prev_char>>

main_vars == <<c_args, c_ret, c_text, c_i, c_keys, watched, typed>>

\* What neither the worker's loop nor the controller's handlers touch.
other_vars == <<spin_vars, cli_vars, base, char_delay, h_window, main_vars>>

gui_vars ==
    <<h_typing_thread, h_current_pos, h_last_text, edit_text,
      start_enabled, stop_enabled, edit_enabled, h_pc, runs, prev, unedited,
      h_status>>

vars == <<thread_vars, gui_vars, pending, other_vars>>

NoPrev == [exists |-> FALSE]

\* stop() has not been called on the worker.
NotStopped == [called |-> FALSE]

\* No base delay has been computed.
NoBase == [computed |-> FALSE]

\* No character delay has been computed.
NoCharDelay == [computed |-> FALSE]

\* ---------------------------------------------------- TypingThread helpers
Total == Len(t_text)

\* text[i]
CharAt(n) == t_text[n + 1]

\* One keystroke sent by _type_char: the key and how it is sent.  kind and idx
\* record which statement of run() sent it and for which text index: "typo" (the
\* wrong character), "fallback" (a typo was selected, no adjacent key), "char"
\* (no typo selected), "retype" (_correct_typos).
TypeChar(char, kind, idx) ==
    [kind |-> kind, c |-> char, idx |-> idx,
     via |-> IF char = "\n" THEN "enter"
             ELSE IF char = "\t" THEN "tab"
             ELSE IF IsAscii(char) THEN "write" ELSE "paste"]

\* pyautogui.press('backspace')
Backspace == [kind |-> "backspace", c |-> "backspace", idx |-> -1, via |-> "press"]

\* ShouldMakeTypo without the test for an alphanumeric character.
ShouldMakeTypo_NoAlnumTest(char, streak, r) == r < TYPO_PROBABILITY + streak

\* _should_make_typo with the draw r of random.random().
ShouldMakeTypo(char, streak, r) ==
    IF ~IsAlnum(char) THEN FALSE ELSE r < TYPO_PROBABILITY + streak

\* UpdateTypoStreak adding the boost to the streak instead of resetting it.
UpdateTypoStreak_Adds(streak, made_typo) ==
    IF made_typo
    THEN streak + TYPO_STREAK_PROBABILITY
    ELSE LET decayed == (streak * TYPO_STREAK_DECAY_NUM) \div TYPO_STREAK_DECAY_DEN
         IN  IF decayed < STREAK_EPSILON THEN 0 ELSE decayed

\* The count of draws after _should_make_typo(char): it returns before the draw
\* for a character that is not alphanumeric.
TypoDrawsAfter(char) == IF IsAlnum(char) THEN typo_draws + 1 ELSE typo_draws

\* UpdateTypoStreak without the reset of a streak below 0.01.
UpdateTypoStreak_NoSnap(streak, made_typo) ==
    IF made_typo
    THEN TYPO_STREAK_PROBABILITY
    ELSE (streak * TYPO_STREAK_DECAY_NUM) \div TYPO_STREAK_DECAY_DEN

\* _update_typo_streak
UpdateTypoStreak(streak, made_typo) ==
    IF made_typo
    THEN TYPO_STREAK_PROBABILITY
    ELSE LET decayed == (streak * TYPO_STREAK_DECAY_NUM) \div TYPO_STREAK_DECAY_DEN
         IN  IF decayed < STREAK_EPSILON THEN 0 ELSE decayed

\* GetTypoChars returning the adjacent keys as the table has them, in lower case.
GetTypoChars_LowerCase(char) ==
    LET lower_char == Lower(char)
    IN  IF lower_char \in DOMAIN ADJACENT_KEYS
        THEN LET adjacent == ADJACENT_KEYS[lower_char]
             IN  {adjacent[k] : k \in 1..Len(adjacent)}
        ELSE {}

\* _get_typo_char: the characters random.choice can return; empty for None.
GetTypoChars(char) ==
    LET lower_char == Lower(char)
    IN  IF lower_char \in DOMAIN ADJACENT_KEYS
        THEN LET adjacent == ADJACENT_KEYS[lower_char]
             IN  {IF IsUpper(char) THEN Upper(adjacent[k]) ELSE adjacent[k] :
                     k \in 1..Len(adjacent)}
        ELSE {}

\* CorrectTypos sending a backspace before it looks at the buffer.
CorrectTypos_BackspaceFirst(buffer) ==
    <<Backspace>>
    \o [k \in 1..Len(buffer) |-> Backspace]
    \o [k \in 1..Len(buffer) |-> TypeChar(buffer[k][2], "retype", -1)]

\* _correct_typos: the keystrokes it sends for a buffer of (typed_wrong, correct)
\* pairs: one backspace per entry, then every correct character in order.
CorrectTypos(buffer) ==
    [k \in 1..Len(buffer) |-> Backspace]
    \o [k \in 1..Len(buffer) |-> TypeChar(buffer[k][2], "retype", -1)]

\* UpdateRhythm without the upper clamp.
UpdateRhythm_NoUpperClamp(rhythm, direction, flip, u) ==
    LET dir1 == IF flip < RHYTHM_CHANGE_PROBABILITY THEN -direction ELSE direction
        r1 == rhythm + dir1 * RHYTHM_DRIFT_RATE * u
    IN  IF r1 <= RHYTHM_MIN THEN [rhythm |-> RHYTHM_MIN, direction |-> 1]
        ELSE [rhythm |-> r1, direction |-> dir1]

\* UpdateRhythm clamping at the bounds without turning the direction.
UpdateRhythm_NoBounce(rhythm, direction, flip, u) ==
    LET dir1 == IF flip < RHYTHM_CHANGE_PROBABILITY THEN -direction ELSE direction
        r1 == rhythm + dir1 * RHYTHM_DRIFT_RATE * u
    IN  IF r1 <= RHYTHM_MIN THEN [rhythm |-> RHYTHM_MIN, direction |-> dir1]
        ELSE IF r1 >= RHYTHM_MAX THEN [rhythm |-> RHYTHM_MAX, direction |-> dir1]
        ELSE [rhythm |-> r1, direction |-> dir1]

\* GetCharModifier with the digit rule tried before the repeated-character rule.
GetCharModifier_DigitFirst(char, prev_char) ==
    IF IsDigit(char) THEN MODIFIER_DIGIT * MODIFIER_UNIT
    ELSE IF Lower(char) = Lower(prev_char) /\ IsAlnum(char)
    THEN MODIFIER_REPEATED * MODIFIER_UNIT
    ELSE IF char = "\n" THEN MODIFIER_NEWLINE * MODIFIER_UNIT
    ELSE IF char = " " THEN MODIFIER_SPACE * MODIFIER_UNIT
    ELSE IF char \in SPECIAL_CHARS THEN MODIFIER_SPECIAL * MODIFIER_UNIT
    ELSE IF char \in PUNCTUATION_CHARS THEN MODIFIER_PUNCTUATION * MODIFIER_UNIT
    ELSE LET modifier0 == MODIFIER_ONE
             modifier1 == IF IsUpper(char)
                          THEN (modifier0 * MODIFIER_CAPITAL) \div MODIFIER_UNIT
                          ELSE modifier0
         IN  IF Lower(char) \in CommonTop
             THEN (modifier1 * MODIFIER_COMMON) \div MODIFIER_UNIT
             ELSE modifier1

\* TypingThread._get_char_modifier with self._prev_char as prev_char (the
\* result in units of 10^-4).
GetCharModifier(char, prev_char) ==
    IF Lower(char) = Lower(prev_char) /\ IsAlnum(char)
    THEN MODIFIER_REPEATED * MODIFIER_UNIT
    ELSE IF char = "\n" THEN MODIFIER_NEWLINE * MODIFIER_UNIT
    ELSE IF char = " " THEN MODIFIER_SPACE * MODIFIER_UNIT
    ELSE IF char \in SPECIAL_CHARS THEN MODIFIER_SPECIAL * MODIFIER_UNIT
    ELSE IF char \in PUNCTUATION_CHARS THEN MODIFIER_PUNCTUATION * MODIFIER_UNIT
    ELSE IF IsDigit(char) THEN MODIFIER_DIGIT * MODIFIER_UNIT
    ELSE LET modifier0 == MODIFIER_ONE
             modifier1 == IF IsUpper(char)
                          THEN (modifier0 * MODIFIER_CAPITAL) \div MODIFIER_UNIT
                          ELSE modifier0
         IN  IF Lower(char) \in CommonTop
             THEN (modifier1 * MODIFIER_COMMON) \div MODIFIER_UNIT
             ELSE modifier1

\* CliGetCharModifier without the repeated-character rule.
CliGetCharModifier_NoRepeat(char, prev_char) ==
    IF char = "\n" THEN MODIFIER_NEWLINE * MODIFIER_UNIT
    ELSE IF char = " " THEN MODIFIER_SPACE * MODIFIER_UNIT
    ELSE IF char \in SPECIAL_CHARS THEN MODIFIER_SPECIAL * MODIFIER_UNIT
    ELSE IF char \in PUNCTUATION_CHARS THEN MODIFIER_PUNCTUATION * MODIFIER_UNIT
    ELSE IF IsDigit(char) THEN MODIFIER_DIGIT * MODIFIER_UNIT
    ELSE LET modifier0 == MODIFIER_ONE
             modifier1 == IF IsUpper(char)
                          THEN (modifier0 * MODIFIER_CAPITAL) \div MODIFIER_UNIT
                          ELSE modifier0
         IN  IF Lower(char) \in CommonTop
             THEN (modifier1 * MODIFIER_COMMON) \div MODIFIER_UNIT
             ELSE modifier1

\* get_char_modifier of cli.py (the result in units of 10^-4).
CliGetCharModifier(char, prev_char) ==
    IF Lower(char) = Lower(prev_char) /\ IsAlnum(char)
    THEN MODIFIER_REPEATED * MODIFIER_UNIT
    ELSE IF char = "\n" THEN MODIFIER_NEWLINE * MODIFIER_UNIT
    ELSE IF char = " " THEN MODIFIER_SPACE * MODIFIER_UNIT
    ELSE IF char \in SPECIAL_CHARS THEN MODIFIER_SPECIAL * MODIFIER_UNIT
    ELSE IF char \in PUNCTUATION_CHARS THEN MODIFIER_PUNCTUATION * MODIFIER_UNIT
    ELSE IF IsDigit(char) THEN MODIFIER_DIGIT * MODIFIER_UNIT
    ELSE LET modifier0 == MODIFIER_ONE
             modifier1 == IF IsUpper(char)
                          THEN (modifier0 * MODIFIER_CAPITAL) \div MODIFIER_UNIT
                          ELSE modifier0
         IN  IF Lower(char) \in CommonTop
             THEN (modifier1 * MODIFIER_COMMON) \div MODIFIER_UNIT
             ELSE modifier1

\* The smaller of two numbers: min(a, b).
Min(a, b) == IF a <= b THEN a ELSE b

\* GetBaseDelay without the cap at max_delay.
GetBaseDelay_NoCap(min_delay, max_delay, extra_delay) ==
    LET delay_range == max_delay - min_delay
    IN  IF delay_range <= 0
        THEN [delay |-> min_delay, drew |-> FALSE]
        ELSE [delay |-> min_delay + extra_delay, drew |-> TRUE]

\* TypingThread._get_base_delay with the draw of random.expovariate; drew says
\* whether the draw was made.
GetBaseDelay(min_delay, max_delay, extra_delay) ==
    LET delay_range == max_delay - min_delay
    IN  IF delay_range <= 0
        THEN [delay |-> min_delay, drew |-> FALSE]
        ELSE [delay |-> Min(min_delay + extra_delay, max_delay), drew |-> TRUE]

\* CliGetBaseDelay without the test of the range.
CliGetBaseDelay_NoGuard(min_delay, max_delay, extra_delay) ==
    [delay |-> Min(min_delay + extra_delay, max_delay), drew |-> TRUE]

\* get_base_delay of cli.py with the draw of random.expovariate.
CliGetBaseDelay(min_delay, max_delay, extra_delay) ==
    LET delay_range == max_delay - min_delay
    IN  IF delay_range <= 0
        THEN [delay |-> min_delay, drew |-> FALSE]
        ELSE [delay |-> Min(min_delay + extra_delay, max_delay), drew |-> TRUE]

\* Both implementations applied to the same bounds and the same draw.
BaseDelays(min_delay, max_delay, extra_delay) ==
    [computed |-> TRUE, min_delay |-> min_delay, max_delay |-> max_delay,
     extra_delay |-> extra_delay,
     gui |-> GetBaseDelay(min_delay, max_delay, extra_delay),
     cli |-> CliGetBaseDelay(min_delay, max_delay, extra_delay)]

\* TypingThread._get_random_delay: the three factors of the product
\* base_delay * modifier * self._rhythm (milliseconds, 10^-4, 10^-5).
GetRandomDelay(char, prev_char, min_delay, max_delay, rhythm, extra_delay) ==
    [base_delay |-> GetBaseDelay(min_delay, max_delay, extra_delay).delay,
     modifier |-> GetCharModifier(char, prev_char),
     rhythm |-> rhythm]

\* The delay human_type sleeps after a character: the three factors of
\* base_delay * modifier * rhythm.
CliCharDelay(char, prev_char, min_delay, max_delay, rhythm, extra_delay) ==
    [base_delay |-> CliGetBaseDelay(min_delay, max_delay, extra_delay).delay,
     modifier |-> CliGetCharModifier(char, prev_char),
     rhythm |-> rhythm]

\* main of cli.py: the two delay arguments, swapped if the minimum is above the
\* maximum.
MainDelays(min_ms, max_ms) ==
    IF min_ms > max_ms
    THEN [min_delay |-> max_ms, max_delay |-> min_ms]
    ELSE [min_delay |-> min_ms, max_delay |-> max_ms]

\* _update_rhythm with the two draws of random.random().
UpdateRhythm(rhythm, direction, flip, u) ==
    LET dir1 == IF flip < RHYTHM_CHANGE_PROBABILITY THEN -direction ELSE direction
        r1 == rhythm + dir1 * RHYTHM_DRIFT_RATE * u
    IN  IF r1 <= RHYTHM_MIN THEN [rhythm |-> RHYTHM_MIN, direction |-> 1]
        ELSE IF r1 >= RHYTHM_MAX THEN [rhythm |-> RHYTHM_MAX, direction |-> -1]
        ELSE [rhythm |-> r1, direction |-> dir1]

\* The rhythm update inside the loop of human_type (cli.py), with its two draws
\* of random.random().
CliUpdateRhythm(rhythm, rhythm_direction, flip, u) ==
    LET dir1 == IF flip < RHYTHM_CHANGE_PROBABILITY
                THEN rhythm_direction * (-1) ELSE rhythm_direction
        r1 == rhythm + dir1 * RHYTHM_DRIFT_RATE * u
    IN  IF r1 <= RHYTHM_MIN THEN [rhythm |-> RHYTHM_MIN, rhythm_direction |-> 1]
        ELSE IF r1 >= RHYTHM_MAX
             THEN [rhythm |-> RHYTHM_MAX, rhythm_direction |-> -1]
             ELSE [rhythm |-> r1, rhythm_direction |-> dir1]

\* The keystrokes of the main loop, one per text index it has processed (the
\* character itself or its typo substitute), without those of _correct_typos.
MainKeys(ks) == SelectSeq(ks, LAMBDA k : k.kind \in {"typo", "fallback", "char"})

\* The text indices the main loop has typed, in order.
TypedIndices(ks) == [n \in 1..Len(MainKeys(ks)) |-> MainKeys(ks)[n].idx]

\* The correction sequences among the keystrokes: the runs of backspaces.
CorrectionRuns(ks) ==
    Cardinality({n \in 1..Len(ks) :
                    /\ ks[n].kind = "backspace"
                    /\ (n = 1 \/ ks[n - 1].kind # "backspace")})

\* stop() is called: what the worker has sent by its first call is remembered.
StopCalled ==
    IF at_stop.called THEN at_stop
    ELSE [called |-> TRUE, main |-> Len(MainKeys(keys)),
          fixes |-> CorrectionRuns(keys)]

\* Signals.
Sig(name, pos, total, ch) == [sig |-> name, pos |-> pos, total |-> total, ch |-> ch]
StoppedAt(pos) == Sig("stopped_at", pos, -1, "")
FinishedTyping == Sig("finished_typing", -1, -1, "")
CharTyped(ch) == Sig("char_typed", -1, -1, ch)
Progress(pos, total) == Sig("progress", pos, total, "")

\* QThread.isRunning(): run() has been entered and has not returned.
IsRunning == pc \in {"loop", "check", "type", "sleep"}

\* A signal of the worker reaches the controller's slot through the GUI thread's
\* event queue, while the controller holds the worker with its signals connected.
\* progress only redraws a label and char_typed has no slot.
Queue(sig) == IF h_typing_thread = "thread" THEN Append(pending, sig) ELSE pending

\* NewThread with the loop started at 0 whatever start_pos is.
NewThread_IgnoresStart(text, min_delay, max_delay, min_start, direction) ==
    /\ t_text' = text
    /\ t_min_delay' = min_delay
    /\ t_max_delay' = max_delay
    /\ t_start_pos' = min_start
    /\ t_stop_flag' = FALSE
    /\ t_current_pos' = min_start
    /\ t_prev_char' = ""
    /\ t_typo_streak' = 0
    /\ t_typo_buffer' = <<>>
    /\ t_rhythm' = RHYTHM_START
    /\ t_rhythm_direction' = direction
    /\ i' = 0
    /\ pc' = "loop"
    /\ keys' = <<>>
    /\ notes' = <<>>
    /\ flag_reads' = 0
    /\ typo_draws' = 0
    /\ at_stop' = NotStopped

\* TypingThread.__init__ followed by start().
NewThread(text, min_delay, max_delay, min_start, direction) ==
    /\ t_text' = text
    /\ t_min_delay' = min_delay
    /\ t_max_delay' = max_delay
    /\ t_start_pos' = min_start
    /\ t_stop_flag' = FALSE
    /\ t_current_pos' = min_start
    /\ t_prev_char' = ""
    /\ t_typo_streak' = 0
    /\ t_typo_buffer' = <<>>
    /\ t_rhythm' = RHYTHM_START
    /\ t_rhythm_direction' = direction
    /\ i' = min_start
    /\ pc' = "loop"
    /\ keys' = <<>>
    /\ notes' = <<>>
    /\ flag_reads' = 0
    /\ typo_draws' = 0
    /\ at_stop' = NotStopped

\* ------------------------------------------------------- TypingThread.run
\* for i in range(start_pos, total): self._current_pos = i
RunRecord ==
    /\ pc = "loop"
    /\ i < Total
    /\ t_current_pos' = i
    /\ pc' = "check"
    /\ UNCHANGED <<t_text, t_start_pos, t_stop_flag, t_prev_char, t_typo_streak,
                   t_typo_buffer, t_rhythm, t_rhythm_direction, i, keys, notes>>
    /\ UNCHANGED <<gui_vars, pending>>
    /\ UNCHANGED <<t_min_delay, t_max_delay, flag_reads, at_stop, typo_draws>>
    /\ UNCHANGED other_vars

\* RunStopped with the flag read after the character is typed.
RunStopped_TypesFirst ==
    /\ pc = "check"
    /\ t_stop_flag
    /\ keys' = Append(keys, TypeChar(CharAt(i), "char", i))
    /\ notes' = Append(notes, StoppedAt(i))
    /\ pending' = Queue(StoppedAt(i))
    /\ pc' = "stopped"
    /\ UNCHANGED <<t_text, t_start_pos, t_stop_flag, t_current_pos, t_prev_char,
                   t_typo_streak, t_typo_buffer, t_rhythm, t_rhythm_direction, i>>
    /\ UNCHANGED gui_vars
    /\ flag_reads' = flag_reads + 1
    /\ UNCHANGED <<t_min_delay, t_max_delay, at_stop, typo_draws>>
    /\ UNCHANGED other_vars

\* if self._stop_flag: self.stopped_at.emit(i); return
RunStopped ==
    /\ pc = "check"
    /\ t_stop_flag
    /\ notes' = Append(notes, StoppedAt(i))
    /\ pending' = Queue(StoppedAt(i))
    /\ pc' = "stopped"
    /\ UNCHANGED <<t_text, t_start_pos, t_stop_flag, t_current_pos, t_prev_char,
                   t_typo_streak, t_typo_buffer, t_rhythm, t_rhythm_direction, i,
                   keys>>
    /\ UNCHANGED gui_vars
    /\ flag_reads' = flag_reads + 1
    /\ UNCHANGED <<t_min_delay, t_max_delay, at_stop, typo_draws>>
    /\ UNCHANGED other_vars

\* RunProceed going on to the character whatever the stop flag says.
RunProceed_IgnoresFlag ==
    /\ pc = "check"
    /\ pc' = "type"
    /\ UNCHANGED <<t_text, t_start_pos, t_stop_flag, t_current_pos, t_prev_char,
                   t_typo_streak, t_typo_buffer, t_rhythm, t_rhythm_direction, i,
                   keys, notes>>
    /\ UNCHANGED <<gui_vars, pending>>
    /\ flag_reads' = flag_reads + 1
    /\ UNCHANGED <<t_min_delay, t_max_delay, at_stop, typo_draws>>
    /\ UNCHANGED other_vars

\* the flag is clear: char = self.text[i]
RunProceed ==
    /\ pc = "check"
    /\ ~t_stop_flag
    /\ pc' = "type"
    /\ UNCHANGED <<t_text, t_start_pos, t_stop_flag, t_current_pos, t_prev_char,
                   t_typo_streak, t_typo_buffer, t_rhythm, t_rhythm_direction, i,
                   keys, notes>>
    /\ UNCHANGED <<gui_vars, pending>>
    /\ flag_reads' = flag_reads + 1
    /\ UNCHANGED <<t_min_delay, t_max_delay, at_stop, typo_draws>>
    /\ UNCHANGED other_vars

\* Notify with progress carrying the index instead of the count typed.
Notify_Index(n) == notes' = notes \o <<CharTyped(CharAt(n)), Progress(n, Total)>>

\* The two signals after the character of index n.
Notify(n) == notes' = notes \o <<CharTyped(CharAt(n)), Progress(n + 1, Total)>>

\* should_typo and _type_typo_char found an adjacent key: the wrong character is
\* typed and buffered.
RunTypeTypo ==
    /\ pc = "type"
    /\ \E r \in TypoDraws :
          /\ ShouldMakeTypo(CharAt(i), t_typo_streak, r)
          /\ \E typo_char \in GetTypoChars(CharAt(i)) :
                /\ keys' = Append(keys, TypeChar(typo_char, "typo", i))
                /\ t_typo_buffer' = Append(t_typo_buffer, <<typo_char, CharAt(i)>>)
    /\ t_typo_streak' = UpdateTypoStreak(t_typo_streak, TRUE)
    /\ Notify(i)
    /\ pc' = "sleep"
    /\ UNCHANGED <<t_text, t_start_pos, t_stop_flag, t_current_pos, t_prev_char,
                   t_rhythm, t_rhythm_direction, i>>
    /\ UNCHANGED <<gui_vars, pending>>
    /\ typo_draws' = typo_draws + 1
    /\ UNCHANGED <<t_min_delay, t_max_delay, flag_reads, at_stop>>
    /\ UNCHANGED other_vars

\* RunTypeFallback updating the streak as after a typo.
RunTypeFallback_BoostsStreak ==
    /\ pc = "type"
    /\ \E r \in TypoDraws : ShouldMakeTypo(CharAt(i), t_typo_streak, r)
    /\ GetTypoChars(CharAt(i)) = {}
    /\ keys' = Append(keys, TypeChar(CharAt(i), "fallback", i))
    /\ t_typo_streak' = UpdateTypoStreak(t_typo_streak, TRUE)
    /\ Notify(i)
    /\ pc' = "sleep"
    /\ UNCHANGED <<t_text, t_start_pos, t_stop_flag, t_current_pos, t_prev_char,
                   t_typo_buffer, t_rhythm, t_rhythm_direction, i>>
    /\ UNCHANGED <<gui_vars, pending>>
    /\ typo_draws' = typo_draws + 1
    /\ UNCHANGED <<t_min_delay, t_max_delay, flag_reads, at_stop>>
    /\ UNCHANGED other_vars

\* should_typo but no adjacent key: the character is typed normally.
RunTypeFallback ==
    /\ pc = "type"
    /\ \E r \in TypoDraws : ShouldMakeTypo(CharAt(i), t_typo_streak, r)
    /\ GetTypoChars(CharAt(i)) = {}
    /\ keys' = Append(keys, TypeChar(CharAt(i), "fallback", i))
    /\ t_typo_streak' = UpdateTypoStreak(t_typo_streak, FALSE)
    /\ Notify(i)
    /\ pc' = "sleep"
    /\ UNCHANGED <<t_text, t_start_pos, t_stop_flag, t_current_pos, t_prev_char,
                   t_typo_buffer, t_rhythm, t_rhythm_direction, i>>
    /\ UNCHANGED <<gui_vars, pending>>
    /\ typo_draws' = typo_draws + 1
    /\ UNCHANGED <<t_min_delay, t_max_delay, flag_reads, at_stop>>
    /\ UNCHANGED other_vars

\* RunTypeNormal with the correction taking the cursor back over the typos.
RunTypeNormal_MovesCursor ==
    /\ pc = "type"
    /\ \/ ~IsAlnum(CharAt(i))
       \/ \E r \in TypoDraws : ~ShouldMakeTypo(CharAt(i), t_typo_streak, r)
    /\ keys' = keys \o CorrectTypos(t_typo_buffer)
                    \o <<TypeChar(CharAt(i), "char", i)>>
    /\ t_current_pos' = t_current_pos - Len(t_typo_buffer)
    /\ t_typo_buffer' = <<>>
    /\ t_typo_streak' = UpdateTypoStreak(t_typo_streak, FALSE)
    /\ Notify(i)
    /\ pc' = "sleep"
    /\ UNCHANGED <<t_text, t_start_pos, t_stop_flag, t_prev_char,
                   t_rhythm, t_rhythm_direction, i>>
    /\ UNCHANGED <<gui_vars, pending>>
    /\ typo_draws' = TypoDrawsAfter(CharAt(i))
    /\ UNCHANGED <<t_min_delay, t_max_delay, flag_reads, at_stop>>
    /\ UNCHANGED other_vars

\* not should_typo: buffered typos are corrected first, then the character.
RunTypeNormal ==
    /\ pc = "type"
    /\ \/ ~IsAlnum(CharAt(i))
       \/ \E r \in TypoDraws : ~ShouldMakeTypo(CharAt(i), t_typo_streak, r)
    /\ keys' = keys \o CorrectTypos(t_typo_buffer)
                    \o <<TypeChar(CharAt(i), "char", i)>>
    /\ t_typo_buffer' = <<>>
    /\ t_typo_streak' = UpdateTypoStreak(t_typo_streak, FALSE)
    /\ Notify(i)
    /\ pc' = "sleep"
    /\ UNCHANGED <<t_text, t_start_pos, t_stop_flag, t_current_pos, t_prev_char,
                   t_rhythm, t_rhythm_direction, i>>
    /\ UNCHANGED <<gui_vars, pending>>
    /\ typo_draws' = TypoDrawsAfter(CharAt(i))
    /\ UNCHANGED <<t_min_delay, t_max_delay, flag_reads, at_stop>>
    /\ UNCHANGED other_vars

\* time.sleep(...); self._update_rhythm(); self._add_burst_pause(char);
\* self._prev_char = char; next i
RunAfterDelay ==
    /\ pc = "sleep"
    /\ \E flip \in FlipDraws, u \in DriftDraws :
          LET r == UpdateRhythm(t_rhythm, t_rhythm_direction, flip, u)
          IN  /\ t_rhythm' = r.rhythm
              /\ t_rhythm_direction' = r.direction
    /\ t_prev_char' = CharAt(i)
    /\ i' = i + 1
    /\ pc' = "loop"
    /\ UNCHANGED <<t_text, t_start_pos, t_stop_flag, t_current_pos, t_typo_streak,
                   t_typo_buffer, keys, notes>>
    /\ UNCHANGED <<gui_vars, pending>>
    /\ UNCHANGED <<t_min_delay, t_max_delay, flag_reads, at_stop, typo_draws>>
    /\ UNCHANGED other_vars

\* RunFinish without the correction at the end of the text.
RunFinish_NoFlush ==
    /\ pc = "loop"
    /\ i >= Total
    /\ notes' = Append(notes, FinishedTyping)
    /\ pending' = Queue(FinishedTyping)
    /\ pc' = "finished"
    /\ UNCHANGED <<t_text, t_start_pos, t_stop_flag, t_current_pos, t_prev_char,
                   t_typo_streak, t_typo_buffer, t_rhythm, t_rhythm_direction, i,
                   keys>>
    /\ UNCHANGED gui_vars
    /\ UNCHANGED <<t_min_delay, t_max_delay, flag_reads, at_stop, typo_draws>>
    /\ UNCHANGED other_vars

\* RunFinish reading the stop flag once more and reporting a stop if it is set.
RunFinish_ReportsStop ==
    /\ pc = "loop"
    /\ i >= Total
    /\ keys' = keys \o CorrectTypos(t_typo_buffer)
    /\ t_typo_buffer' = <<>>
    /\ notes' = Append(notes, IF t_stop_flag THEN StoppedAt(i) ELSE FinishedTyping)
    /\ pending' = Queue(IF t_stop_flag THEN StoppedAt(i) ELSE FinishedTyping)
    /\ pc' = IF t_stop_flag THEN "stopped" ELSE "finished"
    /\ UNCHANGED <<t_text, t_start_pos, t_stop_flag, t_current_pos, t_prev_char,
                   t_typo_streak, t_rhythm, t_rhythm_direction, i>>
    /\ UNCHANGED gui_vars
    /\ UNCHANGED <<t_min_delay, t_max_delay, flag_reads, at_stop, typo_draws>>
    /\ UNCHANGED other_vars

\* the loop is exhausted: if self._typo_buffer: self._correct_typos();
\* self.finished_typing.emit()
RunFinish ==
    /\ pc = "loop"
    /\ i >= Total
    /\ keys' = keys \o CorrectTypos(t_typo_buffer)
    /\ t_typo_buffer' = <<>>
    /\ notes' = Append(notes, FinishedTyping)
    /\ pending' = Queue(FinishedTyping)
    /\ pc' = "finished"
    /\ UNCHANGED <<t_text, t_start_pos, t_stop_flag, t_current_pos, t_prev_char,
                   t_typo_streak, t_rhythm, t_rhythm_direction, i>>
    /\ UNCHANGED gui_vars
    /\ UNCHANGED <<t_min_delay, t_max_delay, flag_reads, at_stop, typo_draws>>
    /\ UNCHANGED other_vars

Run ==
    \/ RunRecord
    \/ RunStopped
    \/ RunProceed
    \/ RunTypeTypo
    \/ RunTypeFallback
    \/ RunTypeNormal
    \/ RunAfterDelay
    \/ RunFinish

\* TypingThread.stop(), called on a thread constructed directly.
Stop ==
    /\ h_typing_thread = "none"
    /\ pc # "none"
    /\ ~t_stop_flag
    /\ t_stop_flag' = TRUE
    /\ UNCHANGED <<t_text, t_start_pos, t_current_pos, t_prev_char, t_typo_streak,
                   t_typo_buffer, t_rhythm, t_rhythm_direction, i, pc, keys, notes>>
    /\ UNCHANGED <<gui_vars, pending>>
    /\ at_stop' = StopCalled
    /\ UNCHANGED <<t_min_delay, t_max_delay, flag_reads, typo_draws>>
    /\ UNCHANGED other_vars

\* ------------------------------------------------ a thread on its own
\* TypingThread(text, min_delay, max_delay, start_pos).start() for every text and
\* every start position in it; random.choice([-1, 1]) for the direction.
GuiIdle ==
    /\ h_typing_thread = "none"
    /\ h_current_pos = 0
    /\ h_last_text = <<>>
    /\ edit_text = <<>>
    /\ start_enabled = TRUE
    /\ stop_enabled = FALSE
    /\ edit_enabled = TRUE
    /\ h_pc = "idle"
    /\ pending = <<>>
    /\ runs = 0
    /\ prev = NoPrev
    /\ unedited = FALSE
    /\ min_delay_spin = DEFAULT_MIN_DELAY_MS
    /\ max_delay_spin = DEFAULT_MAX_DELAY_MS
    /\ h_status = "Ready"
    /\ h_window = "none"

\* ------------------------------------------------- the command line tool
\* type_char's shift_chars: the base key of each character typed with shift.
SHIFT_CHARS ==
    ("!" :> "1") @@ ("@" :> "2") @@ ("#" :> "3") @@ ("$" :> "4") @@
    ("%" :> "5") @@ ("^" :> "6") @@ ("&" :> "7") @@ ("*" :> "8") @@
    ("(" :> "9") @@ (")" :> "0") @@ ("_" :> "-") @@ ("+" :> "=") @@
    ("{" :> "[") @@ ("}" :> "]") @@ ("|" :> "\\") @@ (":" :> ";") @@
    ("\"" :> "'") @@ ("<" :> ",") @@ (">" :> ".") @@ ("?" :> "/") @@
    ("~" :> Backtick)

\* What the keys type_char presses with shift give on the keyboard layout its
\* map is written for.
US_SHIFT ==
    ("1" :> "!") @@ ("2" :> "@") @@ ("3" :> "#") @@ ("4" :> "$") @@
    ("5" :> "%") @@ ("6" :> "^") @@ ("7" :> "&") @@ ("8" :> "*") @@
    ("9" :> "(") @@ ("0" :> ")") @@ ("-" :> "_") @@ ("=" :> "+") @@
    ("[" :> "{") @@ ("]" :> "}") @@ ("\\" :> "|") @@ (";" :> ":") @@
    ("'" :> "\"") @@ ("," :> "<") @@ ("." :> ">") @@ ("/" :> "?") @@
    (Backtick :> "~")

\* type_char that presses a capital letter's key without shift.
CliTypeChar_NoShift(char, idx) ==
    IF char = "\n" THEN [idx |-> idx, key |-> "enter", kind |-> "char", via |-> "enter"]
    ELSE IF char = "\t" THEN [idx |-> idx, key |-> "tab", kind |-> "char", via |-> "tab"]
    ELSE IF ~IsAscii(char)
         THEN [idx |-> idx, key |-> char, kind |-> "char", via |-> "paste"]
    ELSE IF IsUpper(char)
         THEN [idx |-> idx, key |-> Lower(char), kind |-> "char", via |-> "press"]
    ELSE IF char \in DOMAIN SHIFT_CHARS
         THEN [idx |-> idx, key |-> SHIFT_CHARS[char], kind |-> "char", via |-> "shift"]
    ELSE [idx |-> idx, key |-> char, kind |-> "char", via |-> "press"]

\* type_char for the character at text index idx: Enter, Tab, the clipboard
\* and ctrl+v for a non-ASCII character, shift and the lower-case key for a
\* capital letter, shift and the base key for a character of shift_chars, the
\* character's own key otherwise.
CliTypeChar(char, idx) ==
    IF char = "\n" THEN [idx |-> idx, key |-> "enter", kind |-> "char", via |-> "enter"]
    ELSE IF char = "\t" THEN [idx |-> idx, key |-> "tab", kind |-> "char", via |-> "tab"]
    ELSE IF ~IsAscii(char)
         THEN [idx |-> idx, key |-> char, kind |-> "char", via |-> "paste"]
    ELSE IF IsUpper(char)
         THEN [idx |-> idx, key |-> Lower(char), kind |-> "char", via |-> "shift"]
    ELSE IF char \in DOMAIN SHIFT_CHARS
         THEN [idx |-> idx, key |-> SHIFT_CHARS[char], kind |-> "char", via |-> "shift"]
    ELSE [idx |-> idx, key |-> char, kind |-> "char", via |-> "press"]

\* keyboard.press(Key.esc); keyboard.release(Key.esc)
Esc == [idx |-> -1, key |-> "esc", kind |-> "esc", via |-> "press"]

\* The character a key sent by type_char puts into the focused application.
Emitted(k) ==
    IF k.via = "enter" THEN "\n"
    ELSE IF k.via = "tab" THEN "\t"
    ELSE IF k.via = "shift"
         THEN IF k.key \in LowerLetters THEN Upper(k.key)
              ELSE IF k.key \in DOMAIN US_SHIFT THEN US_SHIFT[k.key]
              ELSE k.key
    ELSE k.key

\* str.strip() leaves nothing of the text.
IsBlank(text) == \A k \in 1..Len(text) : text[k] \in {" ", "\n", "\t"}

\* main has not been called.
NoArgs == [mode |-> "none"]

\* The watched file does not exist; id counts its appearances.
NoFile == [exists |-> FALSE, id |-> 0, text |-> <<>>]

MainIdle ==
    /\ c_args = NoArgs
    /\ c_ret = -1
    /\ c_text = <<>>
    /\ c_i = 0
    /\ c_keys = <<>>
    /\ watched = NoFile
    /\ typed = <<>>

\* human_type has not been called.
CliIdle ==
    /\ c_pc = "none"
    /\ c_min_delay = 0
    /\ c_max_delay = 0
    /\ c_rhythm = RHYTHM_START
    /\ c_rhythm_direction = 1
    /\ c_prev_char = ""
    /\ MainIdle

Init ==
    /\ GuiIdle
    /\ CliIdle
    /\ base = NoBase
    /\ char_delay = NoCharDelay
    /\ t_min_delay = DEFAULT_MIN_DELAY_MS
    /\ t_max_delay = DEFAULT_MAX_DELAY_MS
    /\ flag_reads = 0
    /\ typo_draws = 0
    /\ at_stop = NotStopped
    /\ t_text \in TextsUpTo(MaxLen)
    /\ t_start_pos \in 0..Len(t_text)
    /\ t_stop_flag = FALSE
    /\ t_current_pos = t_start_pos
    /\ t_prev_char = ""
    /\ t_typo_streak = 0
    /\ t_typo_buffer = <<>>
    /\ t_rhythm = RHYTHM_START
    /\ t_rhythm_direction \in {-1, 1}
    /\ i = t_start_pos
    /\ pc = "loop"
    /\ keys = <<>>
    /\ notes = <<>>

Next ==
    \/ RunRecord
    \/ RunStopped
    \/ RunProceed
    \/ RunTypeTypo
    \/ RunTypeFallback
    \/ RunTypeNormal
    \/ RunAfterDelay
    \/ RunFinish
    \/ Stop

Spec == Init /\ [][Next]_vars

\* The worker is a started thread: the scheduler runs it, and each of its sleeps
\* ends, so a step of run() that stays possible is taken.
InitLive == Init /\ Len(t_text) <= MaxLiveLen

SpecLive == InitLive /\ [][Next]_vars /\ WF_vars(Run)

\* ------------------------------------------------------------ HumanTyper
\* No TypingThread object.
NoThread ==
    /\ t_text' = <<>>
    /\ t_start_pos' = 0
    /\ t_stop_flag' = FALSE
    /\ t_current_pos' = 0
    /\ t_prev_char' = ""
    /\ t_typo_streak' = 0
    /\ t_typo_buffer' = <<>>
    /\ t_rhythm' = RHYTHM_START
    /\ t_rhythm_direction' = 1
    /\ i' = 0
    /\ pc' = "none"
    /\ keys' = <<>>
    /\ notes' = <<>>
    /\ t_min_delay' = 0
    /\ t_max_delay' = 0
    /\ flag_reads' = 0
    /\ typo_draws' = 0
    /\ at_stop' = NotStopped

\* The typed surface after the keystrokes ks are sent to it: a character is
\* added at the end, a backspace deletes the last character present.
RECURSIVE ReplayOnto(_, _)
ReplayOnto(surface, ks) ==
    IF ks = <<>> THEN surface
    ELSE LET before == ReplayOnto(surface, SubSeq(ks, 1, Len(ks) - 1))
             k == ks[Len(ks)]
         IN  IF k.kind = "backspace"
             THEN IF before = <<>> THEN <<>>
                  ELSE SubSeq(before, 1, Len(before) - 1)
             ELSE Append(before, k.c)

\* The surface after the keystrokes ks are sent to an empty one.
Replay(ks) == ReplayOnto(<<>>, ks)

\* The worker as the controller lets go of it.
Summary ==
    [exists |-> TRUE, text |-> t_text, start_pos |-> t_start_pos,
     typed |-> TypedIndices(keys), surface |-> Replay(keys),
     stop_flag |-> t_stop_flag,
     current_pos |-> t_current_pos, outcome |-> pc, unedited |-> unedited,
     stopped_at |-> IF pc = "stopped" THEN notes[Len(notes)].pos ELSE -1]

\* What _stop_typing writes to the status label for the position pos.
StopStatus(pos) ==
    IF 0 < pos /\ pos < Len(edit_text) THEN "Paused" ELSE "Stopped"

\* _detect_current_window, run by the detection timer: a window other than the
\* program's own has the focus and its title goes into the label.
DetectCurrentWindow ==
    /\ h_pc = "idle"
    /\ h_window = "none"
    /\ h_window' = "detected"
    /\ UNCHANGED <<thread_vars, gui_vars, pending, spin_vars, cli_vars, base,
                   char_delay, main_vars>>

\* _reset_ui
ResetUi ==
    /\ start_enabled' = TRUE
    /\ stop_enabled' = FALSE
    /\ edit_enabled' = TRUE

\* _on_text_changed: the user edits the text box.  The record of what an exited
\* worker has sent is forgotten with the text it belonged to.
OnTextChanged ==
    /\ h_pc = "idle"
    /\ edit_enabled
    /\ \E new \in GuiTextsUpTo(MaxGuiLen) :
          /\ new # edit_text
          /\ edit_text' = new
    /\ h_current_pos' = 0
    /\ h_last_text' = <<>>
    /\ prev' = NoPrev
    /\ unedited' = FALSE
    /\ IF IsRunning
       THEN UNCHANGED <<keys, notes>>
       ELSE keys' = <<>> /\ notes' = <<>>
    /\ UNCHANGED <<h_typing_thread, start_enabled, stop_enabled, edit_enabled,
                   h_pc, runs, pending, h_status>>
    /\ UNCHANGED <<t_text, t_start_pos, t_stop_flag, t_current_pos, t_prev_char,
                   t_typo_streak, t_typo_buffer, t_rhythm, t_rhythm_direction, i,
                   pc>>
    /\ UNCHANGED <<t_min_delay, t_max_delay, flag_reads, at_stop, typo_draws>>
    /\ UNCHANGED other_vars

\* StartPosition with the comparison of the texts inverted.
StartPosition_Inverted == IF edit_text = h_last_text THEN 0 ELSE h_current_pos

\* The position _start_typing gives the new worker: 0 if the text changed.
StartPosition == IF edit_text # h_last_text THEN 0 ELSE h_current_pos

\* The delay bounds _start_typing gives the new worker: the spin boxes' values,
\* swapped if the minimum is above the maximum.
StartDelays(min_ms, max_ms) ==
    IF min_ms > max_ms
    THEN [min_delay |-> max_ms, max_delay |-> min_ms]
    ELSE [min_delay |-> min_ms, max_delay |-> max_ms]

\* _start_typing once the old thread has exited: the rest of
\* _cleanup_typing_thread (disconnect, drop the object), then the new worker.
StartTyping ==
    /\ prev' = IF h_typing_thread # "thread" THEN prev
               ELSE IF unedited THEN Summary ELSE NoPrev
    /\ pending' = <<>>
    /\ h_current_pos' = StartPosition
    /\ h_last_text' = edit_text
    /\ \E direction \in {-1, 1} :
          LET delays == StartDelays(min_delay_spin, max_delay_spin)
          IN  NewThread(edit_text, delays.min_delay, delays.max_delay,
                        StartPosition, direction)
    /\ h_typing_thread' = "thread"
    /\ runs' = runs + 1
    /\ unedited' = TRUE
    /\ h_pc' = "idle"
    /\ start_enabled' = FALSE
    /\ stop_enabled' = TRUE
    /\ edit_enabled' = FALSE
    /\ h_status' = IF StartPosition > 0 THEN "Resuming" ELSE "Typing"
    /\ UNCHANGED edit_text
    /\ UNCHANGED other_vars

\* _on_start_clicked returns early: no text, or no target window.
OnStartClickedNothingToDo ==
    /\ h_pc = "idle"
    /\ \E shortcut \in BOOLEAN : shortcut \/ start_enabled
    /\ IF edit_text = <<>>
       THEN h_status' = "No text to type"
       ELSE /\ h_window = "none"
            /\ h_status' = "No target window"
    /\ UNCHANGED <<h_typing_thread, h_current_pos, h_last_text, edit_text,
                   start_enabled, stop_enabled, edit_enabled, h_pc, runs, prev,
                   unedited, pending>>
    /\ UNCHANGED thread_vars
    /\ UNCHANGED other_vars

\* OnStartClickedNoActivation returning without _reset_ui.
OnStartClickedNoActivation_NoReset ==
    /\ h_pc = "idle"
    /\ \E shortcut \in BOOLEAN : shortcut \/ start_enabled
    /\ edit_text # <<>>
    /\ h_window = "detected"
    /\ start_enabled' = FALSE
    /\ stop_enabled' = TRUE
    /\ edit_enabled' = FALSE
    /\ h_status' = "Window not found"
    /\ UNCHANGED <<h_typing_thread, h_current_pos, h_last_text, edit_text, h_pc,
                   runs, prev, unedited, pending>>
    /\ UNCHANGED thread_vars
    /\ UNCHANGED other_vars

\* _on_start_clicked: the target window cannot be activated.
OnStartClickedNoActivation ==
    /\ h_pc = "idle"
    /\ \E shortcut \in BOOLEAN : shortcut \/ start_enabled
    /\ edit_text # <<>>
    /\ h_window = "detected"
    /\ ResetUi
    /\ h_status' = "Window not found"
    /\ UNCHANGED <<h_typing_thread, h_current_pos, h_last_text, edit_text, h_pc,
                   runs, prev, unedited, pending>>
    /\ UNCHANGED thread_vars
    /\ UNCHANGED other_vars

\* OnStartClicked starting the new worker without stopping a running one.
OnStartClicked_NoWait ==
    /\ h_pc = "idle"
    /\ runs < MaxRuns
    /\ \E shortcut \in BOOLEAN : shortcut \/ start_enabled
    /\ edit_text # <<>>
    /\ h_window = "detected"
    /\ StartTyping

\* _on_start_clicked (Start button, or the Ctrl+Return shortcut, which is not
\* disabled with the button) reaching _start_typing; _cleanup_typing_thread
\* stops a running worker and waits for it.
OnStartClicked ==
    /\ h_pc = "idle"
    /\ runs < MaxRuns
    /\ \E shortcut \in BOOLEAN : shortcut \/ start_enabled
    /\ edit_text # <<>>
    /\ h_window = "detected"
    /\ IF h_typing_thread = "thread" /\ IsRunning
       THEN /\ t_stop_flag' = TRUE
            /\ at_stop' = StopCalled
            /\ UNCHANGED <<t_min_delay, t_max_delay, flag_reads, typo_draws>>
            /\ UNCHANGED other_vars
            /\ h_pc' = "start_wait"
            /\ start_enabled' = FALSE
            /\ stop_enabled' = TRUE
            /\ edit_enabled' = FALSE
            /\ UNCHANGED <<t_text, t_start_pos, t_current_pos, t_prev_char,
                           t_typo_streak, t_typo_buffer, t_rhythm,
                           t_rhythm_direction, i, pc, keys, notes>>
            /\ UNCHANGED <<h_typing_thread, h_current_pos, h_last_text, edit_text,
                           runs, prev, unedited, pending, h_status>>
       ELSE StartTyping

\* while self._typing_thread.isRunning(): wait(50) has ended in
\* _cleanup_typing_thread.
StartTypingAfterWait ==
    /\ h_pc = "start_wait"
    /\ ~IsRunning
    /\ StartTyping

\* _stop_typing (Stop pressed): stop() and the wait for the thread.
StopTyping ==
    /\ h_pc = "idle"
    /\ stop_enabled
    /\ IF h_typing_thread = "thread"
       THEN /\ t_stop_flag' = TRUE
            /\ at_stop' = StopCalled
            /\ h_pc' = "stop_wait"
            /\ UNCHANGED <<start_enabled, stop_enabled, edit_enabled, h_status>>
       ELSE /\ UNCHANGED <<t_stop_flag, at_stop, h_pc>>
            /\ ResetUi
            /\ h_status' = StopStatus(h_current_pos)
    /\ UNCHANGED <<t_text, t_start_pos, t_current_pos, t_prev_char, t_typo_streak,
                   t_typo_buffer, t_rhythm, t_rhythm_direction, i, pc, keys, notes>>
    /\ UNCHANGED <<h_typing_thread, h_current_pos, h_last_text, edit_text, runs,
                   prev, unedited, pending>>
    /\ UNCHANGED <<t_min_delay, t_max_delay, flag_reads, typo_draws>>
    /\ UNCHANGED other_vars

\* StopTypingAfterWait without the wait for the thread's exit.
StopTypingAfterWait_NoWait ==
    /\ h_pc = "stop_wait"
    /\ h_current_pos' = t_current_pos
    /\ prev' = Summary
    /\ pending' = <<>>
    /\ h_typing_thread' = "none"
    /\ NoThread
    /\ ResetUi
    /\ h_status' = StopStatus(t_current_pos)
    /\ h_pc' = "idle"
    /\ UNCHANGED <<h_last_text, edit_text, runs, unedited>>
    /\ UNCHANGED other_vars

\* _stop_typing after the wait: the position is read from the thread, then
\* _cleanup_typing_thread and _reset_ui.
StopTypingAfterWait ==
    /\ h_pc = "stop_wait"
    /\ ~IsRunning
    /\ h_current_pos' = t_current_pos
    /\ prev' = Summary
    /\ pending' = <<>>
    /\ h_typing_thread' = "none"
    /\ NoThread
    /\ ResetUi
    /\ h_status' = StopStatus(t_current_pos)
    /\ h_pc' = "idle"
    /\ UNCHANGED <<h_last_text, edit_text, runs, unedited>>
    /\ UNCHANGED other_vars

\* _on_stopped_at, run from the event queue.  It is no disjunct of NextGui: the
\* stop flag is only set by _stop_typing and _cleanup_typing_thread, and both
\* keep the GUI thread until they have disconnected stopped_at, which discards
\* the queued emission, so the slot cannot run.
OnStoppedAt ==
    /\ h_pc = "idle"
    /\ pending # <<>>
    /\ Head(pending).sig = "stopped_at"
    /\ h_current_pos' = Head(pending).pos
    /\ pending' = Tail(pending)
    /\ UNCHANGED <<h_typing_thread, h_last_text, edit_text, start_enabled,
                   stop_enabled, edit_enabled, h_pc, runs, prev, unedited,
                   h_status>>
    /\ UNCHANGED thread_vars
    /\ UNCHANGED other_vars

\* _typing_finished, run from the event queue.
TypingFinished ==
    /\ h_pc = "idle"
    /\ pending # <<>>
    /\ Head(pending).sig = "finished_typing"
    /\ h_current_pos' = 0
    /\ ResetUi
    /\ h_status' = "Completed"
    /\ pending' = Tail(pending)
    /\ UNCHANGED <<h_typing_thread, h_last_text, edit_text, h_pc, runs, prev,
                   unedited>>
    /\ UNCHANGED thread_vars
    /\ UNCHANGED other_vars

InitGui ==
    /\ GuiIdle
    /\ CliIdle
    /\ base = NoBase
    /\ char_delay = NoCharDelay
    /\ t_min_delay = 0
    /\ t_max_delay = 0
    /\ flag_reads = 0
    /\ typo_draws = 0
    /\ at_stop = NotStopped
    /\ t_text = <<>>
    /\ t_start_pos = 0
    /\ t_stop_flag = FALSE
    /\ t_current_pos = 0
    /\ t_prev_char = ""
    /\ t_typo_streak = 0
    /\ t_typo_buffer = <<>>
    /\ t_rhythm = RHYTHM_START
    /\ t_rhythm_direction = 1
    /\ i = 0
    /\ pc = "none"
    /\ keys = <<>>
    /\ notes = <<>>

NextGui ==
    \/ DetectCurrentWindow
    \/ OnTextChanged
    \/ OnStartClickedNothingToDo
    \/ OnStartClickedNoActivation
    \/ OnStartClicked
    \/ StartTypingAfterWait
    \/ StopTyping
    \/ StopTypingAfterWait
    \/ TypingFinished
    \/ RunRecord
    \/ RunStopped
    \/ RunProceed
    \/ RunTypeTypo
    \/ RunTypeFallback
    \/ RunTypeNormal
    \/ RunAfterDelay
    \/ RunFinish

SpecGui == InitGui /\ [][NextGui]_vars

\* ------------------------------------------------ a long enough text
\* Two letters, then characters with no adjacent key: long enough for the
\* streak of a typo on the first letter to decay to nothing.
StreakText == [k \in 1..StreakLen |-> IF k <= 2 THEN "p" ELSE Hangul]

\* TypingThread(StreakText, min_delay, max_delay).start()
InitStreak ==
    /\ GuiIdle
    /\ CliIdle
    /\ base = NoBase
    /\ char_delay = NoCharDelay
    /\ t_text = StreakText
    /\ t_min_delay = DEFAULT_MIN_DELAY_MS
    /\ t_max_delay = DEFAULT_MAX_DELAY_MS
    /\ t_start_pos = 0
    /\ t_stop_flag = FALSE
    /\ t_current_pos = 0
    /\ t_prev_char = ""
    /\ t_typo_streak = 0
    /\ t_typo_buffer = <<>>
    /\ t_rhythm = RHYTHM_START
    /\ t_rhythm_direction \in {-1, 1}
    /\ i = 0
    /\ pc = "loop"
    /\ keys = <<>>
    /\ notes = <<>>
    /\ flag_reads = 0
    /\ typo_draws = 0
    /\ at_stop = NotStopped

SpecStreak == InitStreak /\ [][Next]_vars

\* ------------------------------------------- texts of every character class
\* Two texts that hold between them a capital letter, a lowercase letter, a
\* digit, a non-ASCII letter, and a space, newline, tab, punctuation mark and
\* special character.
MixedTexts ==
    {<<"P", Hangul, " ", "\n", "q">>, <<"1", "\t", ".", "@", Hangul>>}

\* TypingThread(text, min_delay, max_delay).start() for one of the mixed texts.
InitMixed ==
    /\ GuiIdle
    /\ CliIdle
    /\ base = NoBase
    /\ char_delay = NoCharDelay
    /\ t_text \in MixedTexts
    /\ t_min_delay = DEFAULT_MIN_DELAY_MS
    /\ t_max_delay = DEFAULT_MAX_DELAY_MS
    /\ t_start_pos = 0
    /\ t_stop_flag = FALSE
    /\ t_current_pos = 0
    /\ t_prev_char = ""
    /\ t_typo_streak = 0
    /\ t_typo_buffer = <<>>
    /\ t_rhythm = RHYTHM_START
    /\ t_rhythm_direction \in {-1, 1}
    /\ i = 0
    /\ pc = "loop"
    /\ keys = <<>>
    /\ notes = <<>>
    /\ flag_reads = 0
    /\ typo_draws = 0
    /\ at_stop = NotStopped

SpecMixed == InitMixed /\ [][Next]_vars

\* ------------------------------------------------- the rhythm on its own
\* A worker and a human_type call, each with its rhythm as constructed.
InitRhythm ==
    /\ GuiIdle
    /\ base = NoBase
    /\ char_delay = NoCharDelay
    /\ t_text = <<"p">>
    /\ t_min_delay = DEFAULT_MIN_DELAY_MS
    /\ t_max_delay = DEFAULT_MAX_DELAY_MS
    /\ t_start_pos = 0
    /\ t_stop_flag = FALSE
    /\ t_current_pos = 0
    /\ t_prev_char = ""
    /\ t_typo_streak = 0
    /\ t_typo_buffer = <<>>
    /\ t_rhythm = RHYTHM_START
    /\ t_rhythm_direction \in {-1, 1}
    /\ i = 0
    /\ pc = "loop"
    /\ keys = <<>>
    /\ notes = <<>>
    /\ flag_reads = 0
    /\ typo_draws = 0
    /\ at_stop = NotStopped
    /\ c_pc = "typing"
    /\ c_min_delay = DEFAULT_MIN_DELAY_MS
    /\ c_max_delay = DEFAULT_MAX_DELAY_MS
    /\ c_rhythm = RHYTHM_START
    /\ c_rhythm_direction \in {-1, 1}
    /\ c_prev_char = ""
    /\ MainIdle

\* One call of TypingThread._update_rhythm.
ThreadUpdateRhythm ==
    /\ pc # "none"
    /\ \E flip \in RhythmFlips, u \in RhythmDrifts :
          LET r == UpdateRhythm(t_rhythm, t_rhythm_direction, flip, u)
          IN  /\ t_rhythm' = r.rhythm
              /\ t_rhythm_direction' = r.direction
    /\ UNCHANGED <<t_text, t_start_pos, t_stop_flag, t_current_pos, t_prev_char,
                   t_typo_streak, t_typo_buffer, i, pc, keys, notes,
                   t_min_delay, t_max_delay, flag_reads, at_stop, typo_draws>>
    /\ UNCHANGED <<gui_vars, pending, other_vars>>

\* The rhythm update of one iteration of human_type's loop.
HumanTypeUpdateRhythm ==
    /\ c_pc = "typing"
    /\ \E flip \in RhythmFlips, u \in RhythmDrifts :
          LET r == CliUpdateRhythm(c_rhythm, c_rhythm_direction, flip, u)
          IN  /\ c_rhythm' = r.rhythm
              /\ c_rhythm_direction' = r.rhythm_direction
    /\ UNCHANGED <<c_pc, c_min_delay, c_max_delay, c_prev_char, spin_vars, base,
                   char_delay, h_window,
                   main_vars>>
    /\ UNCHANGED <<thread_vars, gui_vars, pending>>

NextRhythm ==
    \/ ThreadUpdateRhythm
    \/ HumanTypeUpdateRhythm

SpecRhythm == InitRhythm /\ [][NextRhythm]_vars

\* --------------------------------------------------- the delay bounds
\* The window with a text in its box and any values in the two spin boxes; no
\* worker, and the command line tool not run.
InitDelay ==
    /\ h_typing_thread = "none"
    /\ h_current_pos = 0
    /\ h_last_text = <<>>
    /\ edit_text = <<"p">>
    /\ start_enabled = TRUE
    /\ stop_enabled = FALSE
    /\ edit_enabled = TRUE
    /\ h_pc = "idle"
    /\ pending = <<>>
    /\ runs = 0
    /\ prev = NoPrev
    /\ unedited = FALSE
    /\ h_status = "Ready"
    /\ h_window = "detected"
    /\ min_delay_spin \in DelayValues
    /\ max_delay_spin \in DelayValues
    /\ CliIdle
    /\ base = NoBase
    /\ char_delay = NoCharDelay
    /\ t_text = <<>>
    /\ t_min_delay = 0
    /\ t_max_delay = 0
    /\ t_start_pos = 0
    /\ t_stop_flag = FALSE
    /\ t_current_pos = 0
    /\ t_prev_char = ""
    /\ t_typo_streak = 0
    /\ t_typo_buffer = <<>>
    /\ t_rhythm = RHYTHM_START
    /\ t_rhythm_direction = 1
    /\ i = 0
    /\ pc = "none"
    /\ keys = <<>>
    /\ notes = <<>>
    /\ flag_reads = 0
    /\ typo_draws = 0
    /\ at_stop = NotStopped

\* TypingThread(text, min_delay, max_delay).start() called directly, with any
\* two delays.
ConstructThread ==
    /\ h_typing_thread = "none"
    /\ pc = "none"
    /\ \E min_delay \in DelayValues, max_delay \in DelayValues,
          direction \in {-1, 1} :
          NewThread(<<"p">>, min_delay, max_delay, 0, direction)
    /\ UNCHANGED <<gui_vars, pending, other_vars>>

\* main of cli.py with any two delay arguments, up to the first iteration of
\* main returns ret without calling human_type.
MainReturns(args, ret) ==
    /\ c_pc' = "returned"
    /\ c_ret' = ret
    /\ c_args' = args
    /\ UNCHANGED <<c_min_delay, c_max_delay, c_rhythm, c_rhythm_direction,
                   c_prev_char, c_text, c_i, c_keys, watched, typed>>

\* human_type up to its loop, called with text and the two delays: ESC is
\* pressed, the rhythm starts at 1.0 with a direction drawn by random.choice.
HumanTypeEnter(text, delays) ==
    /\ c_pc' = "typing"
    /\ c_text' = text
    /\ c_i' = 0
    /\ c_keys' = <<Esc>>
    /\ c_min_delay' = delays.min_delay
    /\ c_max_delay' = delays.max_delay
    /\ c_rhythm' = RHYTHM_START
    /\ c_rhythm_direction' \in {-1, 1}
    /\ c_prev_char' = ""

\* main called with the parsed arguments args, up to its return or to the loop
\* of the function it calls.  args.text is the value of -t, what stdin holds or
\* what the file holds; args.window says whether a window was asked for and
\* whether activate_window finds it.
MainCall(args) ==
    /\ c_pc = "none"
    /\ IF args.mode = "list_windows" THEN MainReturns(args, 0)
       ELSE IF args.gui
            THEN /\ c_pc' = "gui"
                 /\ c_args' = args
                 /\ UNCHANGED <<c_ret, c_min_delay, c_max_delay, c_rhythm,
                                c_rhythm_direction, c_prev_char, c_text, c_i,
                                c_keys, watched, typed>>
       ELSE IF args.mode = "watch"
            THEN /\ c_pc' = "watching"
                 /\ c_args' = args
                 /\ c_min_delay' = MainDelays(args.min_ms, args.max_ms).min_delay
                 /\ c_max_delay' = MainDelays(args.min_ms, args.max_ms).max_delay
                 /\ UNCHANGED <<c_ret, c_rhythm, c_rhythm_direction, c_prev_char,
                                c_text, c_i, c_keys, watched, typed>>
       ELSE IF args.mode = "file" /\ ~args.file_exists THEN MainReturns(args, 1)
       ELSE IF args.mode = "none" THEN MainReturns(args, 0)
       ELSE IF args.mode = "text" /\ args.text = <<>> THEN MainReturns(args, 0)
       ELSE IF IsBlank(args.text) THEN MainReturns(args, 1)
       ELSE IF args.window = "notfound" THEN MainReturns(args, 1)
       ELSE /\ HumanTypeEnter(args.text, MainDelays(args.min_ms, args.max_ms))
            /\ c_args' = args
            /\ UNCHANGED <<c_ret, watched, typed>>
    /\ UNCHANGED <<thread_vars, gui_vars, pending, spin_vars, base, char_delay,
                   h_window>>

\* The arguments of a call that types the text given with -t.
TextArgs(text, min_ms, max_ms) ==
    [delete_after |-> FALSE, file_exists |-> TRUE, gui |-> FALSE,
     max_ms |-> max_ms, min_ms |-> min_ms, mode |-> "text", text |-> text,
     window |-> "none"]

\* main is called with a text to type and any two delays.
CliMain ==
    /\ c_pc = "none"
    /\ \E min_ms \in DelayValues, max_ms \in DelayValues :
          MainCall(TextArgs(<<"p">>, min_ms, max_ms))

\* The worker calls _get_base_delay.
ThreadBaseDelay ==
    /\ pc # "none"
    /\ \E extra_delay \in ExtraDraws :
          base' = BaseDelays(t_min_delay, t_max_delay, extra_delay)
    /\ UNCHANGED <<thread_vars, gui_vars, pending, spin_vars, cli_vars,
                   char_delay, h_window,
                   main_vars>>

\* human_type calls get_base_delay.
HumanTypeBaseDelay ==
    /\ c_pc = "typing"
    /\ \E extra_delay \in ExtraDraws :
          base' = BaseDelays(c_min_delay, c_max_delay, extra_delay)
    /\ UNCHANGED <<thread_vars, gui_vars, pending, spin_vars, cli_vars,
                   char_delay, h_window,
                   main_vars>>

NextDelay ==
    \/ ConstructThread
    \/ OnStartClicked
    \/ CliMain
    \/ ThreadBaseDelay
    \/ HumanTypeBaseDelay

SpecDelay == InitDelay /\ [][NextDelay]_vars

\* ------------------------------------------- the two delay models side by side
\* A worker and a human_type call given the same two delays and the same first
\* direction, before their first character.
InitPace ==
    /\ GuiIdle
    /\ base = NoBase
    /\ char_delay = NoCharDelay
    /\ t_text = <<>>
    /\ t_min_delay \in {DEFAULT_MIN_DELAY_MS, DEFAULT_MAX_DELAY_MS}
    /\ t_max_delay \in {DEFAULT_MIN_DELAY_MS, DEFAULT_MAX_DELAY_MS}
    /\ t_start_pos = 0
    /\ t_stop_flag = FALSE
    /\ t_current_pos = 0
    /\ t_prev_char = ""
    /\ t_typo_streak = 0
    /\ t_typo_buffer = <<>>
    /\ t_rhythm = RHYTHM_START
    /\ t_rhythm_direction \in {-1, 1}
    /\ i = 0
    /\ pc = "sleep"
    /\ keys = <<>>
    /\ notes = <<>>
    /\ flag_reads = 0
    /\ typo_draws = 0
    /\ at_stop = NotStopped
    /\ c_pc = "typing"
    /\ c_min_delay = t_min_delay
    /\ c_max_delay = t_max_delay
    /\ c_rhythm = RHYTHM_START
    /\ c_rhythm_direction = t_rhythm_direction
    /\ c_prev_char = ""
    /\ MainIdle

\* The part of one iteration that follows the keystroke, in both programs, for
\* the same character and the same draws: the delay of the character, the
\* update of the rhythm, the character remembered as the previous one.
DelayAfterChar ==
    /\ pc = "sleep"
    /\ c_pc = "typing"
    /\ \E char \in DelayChars, extra_delay \in ExtraDraws, flip \in FlipDraws,
          u \in DriftDraws :
          LET r == UpdateRhythm(t_rhythm, t_rhythm_direction, flip, u)
              c == CliUpdateRhythm(c_rhythm, c_rhythm_direction, flip, u)
          IN  /\ char_delay' =
                    [computed |-> TRUE, char |-> char, prev_char |-> t_prev_char,
                     gui |-> GetRandomDelay(char, t_prev_char, t_min_delay,
                                            t_max_delay, t_rhythm, extra_delay),
                     cli |-> CliCharDelay(char, c_prev_char, c_min_delay,
                                          c_max_delay, c_rhythm, extra_delay)]
              /\ t_rhythm' = r.rhythm
              /\ t_rhythm_direction' = r.direction
              /\ t_prev_char' = char
              /\ c_rhythm' = c.rhythm
              /\ c_rhythm_direction' = c.rhythm_direction
              /\ c_prev_char' = char
    /\ UNCHANGED <<t_text, t_start_pos, t_stop_flag, t_current_pos,
                   t_typo_streak, t_typo_buffer, i, pc, keys, notes,
                   t_min_delay, t_max_delay, flag_reads, at_stop, typo_draws>>
    /\ UNCHANGED <<c_pc, c_min_delay, c_max_delay, spin_vars, base, h_window,
                   main_vars>>
    /\ UNCHANGED <<gui_vars, pending>>

NextPace == DelayAfterChar

SpecPace == InitPace /\ [][NextPace]_vars

\* ------------------------------------------ the command line tool's runs
\* The characters of the texts given to the command line tool: a lowercase
\* letter, a capital letter, a character of shift_chars, space, newline, a
\* non-ASCII letter.
CliChars == {"p", "P", "@", " ", "\n", Hangul}

CliTexts == UNION {[1..k -> CliChars] : k \in 0..MaxCliLen}

\* What the watched file holds when it appears: nothing, white space, a text.
FileTexts == {<<>>, <<" ", "\n">>, <<"p">>}

\* The calls of main: -f, --stdin or -t with a text and with a window or
\* none; no input source or --list-windows, with --gui or without; -t with
\* --gui; --watch with a window or none, with -d or without.
MainArgs ==
    {[delete_after |-> FALSE, file_exists |-> file_exists, gui |-> FALSE,
      max_ms |-> DEFAULT_MAX_DELAY_MS, min_ms |-> DEFAULT_MIN_DELAY_MS,
      mode |-> mode, text |-> text, window |-> window] :
        mode \in {"stdin", "text"}, text \in CliTexts, file_exists \in {TRUE},
        window \in {"none", "found", "notfound"}}
    \cup
    {[delete_after |-> FALSE, file_exists |-> file_exists, gui |-> FALSE,
      max_ms |-> DEFAULT_MAX_DELAY_MS, min_ms |-> DEFAULT_MIN_DELAY_MS,
      mode |-> "file", text |-> text, window |-> window] :
        text \in CliTexts, file_exists \in BOOLEAN,
        window \in {"none", "found", "notfound"}}
    \cup
    {[delete_after |-> FALSE, file_exists |-> TRUE, gui |-> gui,
      max_ms |-> DEFAULT_MAX_DELAY_MS, min_ms |-> DEFAULT_MIN_DELAY_MS,
      mode |-> mode, text |-> <<"p">>, window |-> "none"] :
        mode \in {"none", "list_windows", "text"}, gui \in BOOLEAN}
    \cup
    {[delete_after |-> delete_after, file_exists |-> FALSE, gui |-> FALSE,
      max_ms |-> DEFAULT_MAX_DELAY_MS, min_ms |-> DEFAULT_MIN_DELAY_MS,
      mode |-> "watch", text |-> <<>>, window |-> window] :
        window \in {"none", "given"}, delete_after \in BOOLEAN}

\* Nothing has run: the window as constructed and no worker, no call of
\* main, no watched file.
InitCli == InitGui

\* main is called.
Main ==
    /\ c_pc = "none"
    /\ \E args \in MainArgs : MainCall(args)

\* One iteration of human_type's loop: type_char for the next character, the
\* sleep, the update of the rhythm, the character kept as prev_char.
HumanTypeChar ==
    /\ c_pc = "typing"
    /\ c_i < Len(c_text)
    /\ LET char == c_text[c_i + 1]
       IN  /\ c_keys' = Append(c_keys, CliTypeChar(char, c_i))
           /\ c_prev_char' = char
    /\ \E flip \in FlipDraws, u \in DriftDraws :
          LET r == CliUpdateRhythm(c_rhythm, c_rhythm_direction, flip, u)
          IN  /\ c_rhythm' = r.rhythm
              /\ c_rhythm_direction' = r.rhythm_direction
    /\ c_i' = c_i + 1
    /\ UNCHANGED <<c_pc, c_min_delay, c_max_delay, c_args, c_ret, c_text,
                   watched, typed>>
    /\ UNCHANGED <<thread_vars, gui_vars, pending, spin_vars, base, char_delay,
                   h_window>>

\* human_type's loop is over and it returns: to main, which returns 0, or to
\* watch_file, which removes the file when told to and goes on watching.
HumanTypeReturn ==
    /\ c_pc = "typing"
    /\ c_i = Len(c_text)
    /\ IF c_args.mode = "watch"
       THEN /\ c_pc' = "watching"
            /\ watched' = IF c_args.delete_after
                          THEN [watched EXCEPT !.exists = FALSE]
                          ELSE watched
            /\ UNCHANGED c_ret
       ELSE /\ c_pc' = "returned"
            /\ c_ret' = 0
            /\ UNCHANGED watched
    /\ UNCHANGED <<c_min_delay, c_max_delay, c_rhythm, c_rhythm_direction,
                   c_prev_char, c_args, c_text, c_i, c_keys, typed>>
    /\ UNCHANGED <<thread_vars, gui_vars, pending, spin_vars, base, char_delay,
                   h_window>>

\* One pass of watch_file's loop up to its sleep or to human_type's loop: no
\* file or a blank one, nothing; a window that cannot be activated, the file
\* removed when told to; otherwise human_type is called with what the file
\* holds.
WatchPoll ==
    /\ c_pc = "watching"
    /\ IF ~watched.exists \/ IsBlank(watched.text)
       THEN UNCHANGED <<cli_vars, main_vars>>
       ELSE \E activated \in IF c_args.window = "none" THEN {TRUE} ELSE BOOLEAN :
               IF ~activated
               THEN /\ watched' = IF c_args.delete_after
                                  THEN [watched EXCEPT !.exists = FALSE]
                                  ELSE watched
                    /\ UNCHANGED <<cli_vars, c_args, c_ret, c_text, c_i, c_keys,
                                   typed>>
               ELSE /\ Len(typed) < MaxTypings
                    /\ HumanTypeEnter(watched.text,
                                      [max_delay |-> c_max_delay,
                                       min_delay |-> c_min_delay])
                    /\ typed' = Append(typed, [id |-> watched.id,
                                               text |-> watched.text])
                    /\ UNCHANGED <<c_args, c_ret, watched>>
    /\ UNCHANGED <<thread_vars, gui_vars, pending, spin_vars, base, char_delay,
                   h_window>>

\* Another program writes the watched file: it appears, or it is replaced.
WriteFile ==
    /\ c_args.mode = "watch"
    /\ c_pc \in {"watching", "typing"}
    /\ watched.id < MaxFiles
    /\ \E text \in FileTexts :
          watched' = [exists |-> TRUE, id |-> watched.id + 1, text |-> text]
    /\ UNCHANGED <<cli_vars, c_args, c_ret, c_text, c_i, c_keys, typed>>
    /\ UNCHANGED <<thread_vars, gui_vars, pending, spin_vars, base, char_delay,
                   h_window>>

\* human_type's steps.
HumanType == HumanTypeChar \/ HumanTypeReturn

NextCli ==
    \/ Main
    \/ HumanTypeChar
    \/ HumanTypeReturn
    \/ WatchPoll
    \/ WriteFile

SpecCli == InitCli /\ [][NextCli]_vars

\* human_type's process is scheduled, and each of its sleeps ends.
SpecCliLive == InitCli /\ [][NextCli]_vars /\ WF_vars(HumanType)

\* ------------------------------------------------------------------ claims
\* The indices lo, lo+1, ..., hi-1 in order.
Indices(lo, hi) == [n \in 1..(hi - lo) |-> lo + n - 1]

\* The position the run reported with stopped_at.
StoppedPos == notes[Len(notes)].pos

\* How many of the main loop's latest keystrokes were typos in a row.
RECURSIVE TrailingTypos(_)
TrailingTypos(main) ==
    IF main = <<>> \/ main[Len(main)].kind # "typo"
    THEN 0
    ELSE 1 + TrailingTypos(SubSeq(main, 1, Len(main) - 1))

\* C1: when a run has ended with stopped_at(k), its main loop has typed every
\* index from start_pos to k-1 exactly once, in order, and has not typed index k;
\* when the stop flag is about to be read the cursor is already recorded and the
\* character at the cursor is not typed yet.
C1_StopBeforeChar ==
    /\ pc = "stopped" =>
          /\ StoppedPos = t_current_pos
          /\ TypedIndices(keys) = Indices(t_start_pos, StoppedPos)
    /\ pc = "check" =>
          /\ t_current_pos = i
          /\ TypedIndices(keys) = Indices(t_start_pos, i)

C1_Witness ==
    /\ pc = "stopped"
    /\ StoppedPos >= t_start_pos + 2
    /\ StoppedPos < Total
    /\ \E n \in 1..Len(keys) : keys[n].kind = "typo"
    /\ \E n \in 1..Len(keys) : keys[n].kind = "char"

\* C2: when a worker that started at 0 reported stopped_at(k) and the next worker,
\* on the same text from start_pos k, has finished, the new worker's main loop has
\* typed exactly the indices k..len-1 in order, and the two together every index
\* of the text exactly once.
C2_ResumeTypesTheRest ==
    (/\ prev.exists
     /\ prev.outcome = "stopped"
     /\ prev.start_pos = 0
     /\ pc = "finished"
     /\ t_text = prev.text
     /\ t_start_pos = prev.stopped_at)
    => /\ TypedIndices(keys) = Indices(prev.stopped_at, Len(t_text))
       /\ prev.typed \o TypedIndices(keys) = Indices(0, Len(t_text))

C2_Witness ==
    /\ prev.exists
    /\ prev.outcome = "stopped"
    /\ prev.start_pos = 0
    /\ prev.stopped_at = 1
    /\ pc = "finished"
    /\ t_text = prev.text
    /\ t_start_pos = 1
    /\ Len(t_text) = 2

\* C3: a worker created after a worker that was asked to stop, on the text that
\* worker had and that was not edited since, starts at the first index the
\* stopped worker has not typed.
C3_SavedCursorIsFirstUntyped ==
    (/\ h_typing_thread = "thread"
     /\ prev.exists
     /\ prev.stop_flag
     /\ prev.unedited
     /\ t_text = prev.text)
    => t_start_pos = prev.start_pos + Len(prev.typed)

\* C4: when a run has ended with stopped_at, the typo buffer is empty.
C4_StoppedWithEmptyBuffer == pc = "stopped" => t_typo_buffer = <<>>

\* C5: right after the main loop has typed the intended character of the current
\* index (no typo selected, or a typo selected and no adjacent key), the typo
\* buffer is empty: the buffer is unchanged by typing, so it was empty when the
\* character was typed.
C5_IntendedCharWithEmptyBuffer ==
    (/\ pc = "sleep"
     /\ keys[Len(keys)].kind \in {"char", "fallback"})
    => t_typo_buffer = <<>>

\* C6: when the main loop types a character not selected for a typo right after
\* k >= 1 characters in a row typed as typos, the buffer held k entries, the k
\* typos were the latest keystrokes (no backspace among them), and the step
\* sends exactly k backspaces, then the k intended characters in text order, then
\* the character, and leaves the buffer empty.
C6_BulkCorrection ==
    [][(/\ pc = "type"
        /\ pc' = "sleep"
        /\ keys'[Len(keys')].kind = "char"
        /\ TrailingTypos(MainKeys(keys)) >= 1)
       => LET k == TrailingTypos(MainKeys(keys))
          IN  /\ Len(t_typo_buffer) = k
              /\ \A n \in 1..k : keys[Len(keys) - k + n].kind = "typo"
              /\ keys' = keys
                    \o [n \in 1..k |-> Backspace]
                    \o [n \in 1..k |-> TypeChar(CharAt(i - k + n - 1), "retype", -1)]
                    \o <<TypeChar(CharAt(i), "char", i)>>
              /\ t_typo_buffer' = <<>>]_vars

\* C7: once finished_typing is emitted the typo buffer is empty, and a typo is
\* never the run's last keystroke: the correction has run after it.
C7_FlushBeforeFinished ==
    (\E n \in 1..Len(notes) : notes[n].sig = "finished_typing")
    => /\ t_typo_buffer = <<>>
       /\ keys # <<>> => keys[Len(keys)].kind # "typo"

C7_Witness ==
    /\ pc = "finished"
    /\ keys # <<>>
    /\ keys[Len(keys)].kind = "retype"
    /\ MainKeys(keys)[Len(MainKeys(keys))].kind = "typo"

\* C8: when a run has ended with finished_typing its cursor equals len(text),
\* and the cursor is always within 0..len(text).
C8_CursorAtEnd ==
    /\ pc = "finished" => t_current_pos = Len(t_text)
    /\ pc # "none" => t_current_pos \in 0..Len(t_text)

\* C9: within a run the cursor never decreases: the first iteration sets it to
\* start_pos, every later iteration to one more than it was, and no other step
\* of the run (typing, correction, delay, stop, the end of the text) moves it.
C9_CursorMonotonic ==
    [][/\ t_current_pos' >= t_current_pos
       /\ (pc = "loop" /\ pc' = "check") =>
             t_current_pos' = IF MainKeys(keys) = <<>> THEN t_start_pos
                              ELSE t_current_pos + 1
       /\ ~(pc = "loop" /\ pc' = "check") => t_current_pos' = t_current_pos]_vars

C9_Witness ==
    /\ pc = "stopped"
    /\ t_current_pos >= t_start_pos + 2
    /\ \E n \in 1..Len(keys) : keys[n].kind = "retype"

\* C10: a worker the controller creates starts at 0 when no worker was created
\* for the text box's content or the text was edited since, whatever position
\* was saved; otherwise it starts at the saved position, which after a stop that
\* reported stopped_at is the reported position.
C10_StartPosition ==
    [][runs' = runs + 1 =>
          /\ ~unedited => t_start_pos' = 0
          /\ unedited => t_start_pos' = h_current_pos
          /\ (h_typing_thread = "none" /\ prev.exists /\ prev.outcome = "stopped") =>
                t_start_pos' = prev.stopped_at]_vars

C10_Witness ==
    /\ h_typing_thread = "thread"
    /\ prev.exists
    /\ prev.outcome = "stopped"
    /\ t_start_pos = 1
    /\ runs = 2

\* C11: the controller copies the worker's cursor only in _stop_typing, after it
\* has set the stop flag and the worker thread has exited: the step that ends
\* the wait of _stop_typing starts from a state where the flag is set and the
\* thread is no longer running, and stores the cursor the thread ended with.
C11_CursorReadAfterExit ==
    [][(h_pc = "stop_wait" /\ h_pc' # "stop_wait")
          => /\ t_stop_flag
             /\ ~IsRunning
             /\ h_current_pos' = t_current_pos]_vars

\* A worker stopped by the Stop button after it typed something, its cursor
\* copied by the controller.
C11_Witness ==
    /\ h_typing_thread = "none"
    /\ prev.exists
    /\ prev.outcome = "stopped"
    /\ prev.typed # <<>>
    /\ h_current_pos = prev.current_pos

\* run() has returned, and the last signal it emitted says how.
Terminated ==
    /\ pc \in {"stopped", "finished"}
    /\ notes # <<>>
    /\ notes[Len(notes)].sig =
          IF pc = "stopped" THEN "stopped_at" ELSE "finished_typing"

\* C12: the stop flag is read once per loop iteration, before the iteration's
\* keystroke (the reads so far are the characters typed, plus one while an
\* iteration is past its check); once stop() has been called the worker types
\* at most one more text character and at most one more correction sequence;
\* and a running worker whose flag is set eventually returns from run(), its
\* last signal being stopped_at or finished_typing.
C12_StopLatency ==
    /\ [](flag_reads = Len(MainKeys(keys))
                         + (IF pc \in {"type", "stopped"} THEN 1 ELSE 0))
    /\ [](at_stop.called
            => /\ Len(MainKeys(keys)) <= at_stop.main + 1
               /\ CorrectionRuns(keys) <= at_stop.fixes + 1)
    /\ ((t_stop_flag /\ IsRunning) ~> Terminated)

\* stop() was called while the worker was typing: one more character and one
\* more correction sequence came out before stopped_at.
C12_Witness ==
    /\ at_stop.called
    /\ Len(MainKeys(keys)) = at_stop.main + 1
    /\ CorrectionRuns(keys) = at_stop.fixes + 1
    /\ pc = "stopped"
    /\ Terminated

\* C13: the worker's signals are, for each text index the main loop has typed,
\* in index order from start_pos, char_typed with the text's character at that
\* index directly followed by progress with the index plus one and the text's
\* length, then the one terminal signal once run() has returned; the pair for
\* an index is there while the index's delay runs and not before its keystroke;
\* no progress position exceeds the text's length.
C13_Notifications ==
    LET n == Len(MainKeys(keys))
    IN  /\ Len(notes) = 2 * n + (IF pc \in {"stopped", "finished"} THEN 1 ELSE 0)
        /\ \A m \in 1..n :
              /\ MainKeys(keys)[m].idx = t_start_pos + m - 1
              /\ notes[2 * m - 1] = CharTyped(CharAt(t_start_pos + m - 1))
              /\ notes[2 * m] = Progress(t_start_pos + m, Total)
              /\ notes[2 * m].pos <= Total
        /\ pc = "sleep" => n = i - t_start_pos + 1
        /\ pc \in {"loop", "check", "type"} => n = i - t_start_pos

\* A resumed worker in the delay of its second character, which it typed as a
\* typo: char_typed carries the text's character, not the key pressed.
C13_Witness ==
    /\ pc = "sleep"
    /\ t_start_pos > 0
    /\ Len(MainKeys(keys)) = 2
    /\ MainKeys(keys)[2].kind = "typo"
    /\ notes[3].sig = "char_typed"
    /\ notes[3].ch # MainKeys(keys)[2].c
    /\ notes[4] = Progress(t_start_pos + 2, Total)

\* C15: from 1.0 and after any number of updates with any draws, the rhythm of
\* the worker and the rhythm of the command line loop are both between
\* RHYTHM_MIN and RHYTHM_MAX.
C15_RhythmInBounds ==
    /\ RHYTHM_MIN <= t_rhythm /\ t_rhythm <= RHYTHM_MAX
    /\ RHYTHM_MIN <= c_rhythm /\ c_rhythm <= RHYTHM_MAX

\* The worker's rhythm has drifted down to its lower bound and the command
\* line loop's up to its upper bound.
C15_Witness ==
    /\ t_rhythm = RHYTHM_MIN
    /\ c_rhythm = RHYTHM_MAX

\* C16: the worker's rhythm direction is +1 or -1; whenever the rhythm stands
\* at RHYTHM_MIN the direction is +1 and whenever it stands at RHYTHM_MAX the
\* direction is -1 (the rhythm starts strictly between the bounds, so it only
\* stands at one after an update).
C16_DirectionBounces ==
    /\ t_rhythm_direction \in {-1, 1}
    /\ t_rhythm = RHYTHM_MIN => t_rhythm_direction = 1
    /\ t_rhythm = RHYTHM_MAX => t_rhythm_direction = -1

\* The worker's rhythm at its upper bound, turned back.
C16_Witness ==
    /\ t_rhythm = RHYTHM_MAX
    /\ t_rhythm_direction = -1

\* The last keystroke sent is a typo substitute.
LastKeyIsTypo(ks) == ks # <<>> /\ ks[Len(ks)].kind = "typo"

\* C17: the typo streak is never negative and never above
\* TYPO_STREAK_PROBABILITY; a step that types a character as a typo leaves it
\* at exactly TYPO_STREAK_PROBABILITY, and no other step raises it.
C17_TypoStreak ==
    /\ [](0 <= t_typo_streak /\ t_typo_streak <= TYPO_STREAK_PROBABILITY)
    /\ [][IF keys' # keys /\ LastKeyIsTypo(keys')
          THEN t_typo_streak' = TYPO_STREAK_PROBABILITY
          ELSE t_typo_streak' <= t_typo_streak]_vars

\* Two typos in a row, the streak at TYPO_STREAK_PROBABILITY after the second.
C17_Witness ==
    /\ Len(keys) >= 2
    /\ keys[Len(keys)].kind = "typo"
    /\ keys[Len(keys) - 1].kind = "typo"
    /\ t_typo_streak = TYPO_STREAK_PROBABILITY
    /\ pc = "sleep"

\* A streak started by a typo on the first letter has decayed to nothing.
C17_DecayedWitness ==
    /\ keys # <<>>
    /\ keys[1].kind = "typo"
    /\ i >= 7
    /\ pc = "sleep"
    /\ t_typo_streak = 0

\* C18: a base delay computed for bounds with min_delay <= max_delay lies
\* between the bounds, whatever the exponential draw, and _get_base_delay and
\* get_base_delay return the same for the same bounds and draw.
C18_BaseDelayInBounds ==
    (base.computed /\ base.min_delay <= base.max_delay)
        => /\ base.min_delay <= base.gui.delay
           /\ base.gui.delay <= base.max_delay
           /\ base.cli = base.gui

\* A draw larger than the range, capped at max_delay.
C18_Witness ==
    /\ base.computed
    /\ base.min_delay < base.max_delay
    /\ base.extra_delay > base.max_delay - base.min_delay
    /\ base.gui.delay = base.max_delay

\* C19: a base delay computed for bounds with max_delay <= min_delay is
\* min_delay, in both implementations, and no draw is made for it.
C19_DegenerateRange ==
    (base.computed /\ base.max_delay <= base.min_delay)
        => /\ base.gui = [delay |-> base.min_delay, drew |-> FALSE]
           /\ base.cli = [delay |-> base.min_delay, drew |-> FALSE]

\* Equal bounds, and a draw that would have added to them.
C19_Witness ==
    /\ base.computed
    /\ base.max_delay = base.min_delay
    /\ base.extra_delay > 0
    /\ base.gui.delay = base.min_delay

\* Reversed bounds, and a draw that would have added to them.
C19_ReversedWitness ==
    /\ base.computed
    /\ base.max_delay < base.min_delay
    /\ base.extra_delay > 0
    /\ base.cli.delay = base.min_delay

\* C20: every worker and every human_type call has min_delay <= max_delay.
C20_DelaysOrdered ==
    /\ pc # "none" => t_min_delay <= t_max_delay
    /\ c_pc = "typing" => c_min_delay <= c_max_delay

\* What holds of the bounds: those of a worker the controller created and those
\* of human_type are ordered.
C20_CallersOrderDelays ==
    /\ h_typing_thread = "thread" => t_min_delay <= t_max_delay
    /\ c_pc = "typing" => c_min_delay <= c_max_delay

\* The modifier the claim's rule list gives, the first matching rule winning.
RuleListModifier(char, prev_char) ==
    LET common == Lower(char) \in {"e", "t", "a", "o", "i", "n", "s", "h", "r", "l"}
    IN  CASE Lower(char) = Lower(prev_char) /\ IsAlnum(char) ->
               MODIFIER_REPEATED * MODIFIER_UNIT
          [] OTHER ->
             CASE char = "\n" -> MODIFIER_NEWLINE * MODIFIER_UNIT
               [] char = " " -> MODIFIER_SPACE * MODIFIER_UNIT
               [] char \in SPECIAL_CHARS -> MODIFIER_SPECIAL * MODIFIER_UNIT
               [] char \in PUNCTUATION_CHARS -> MODIFIER_PUNCTUATION * MODIFIER_UNIT
               [] char \in Digits -> MODIFIER_DIGIT * MODIFIER_UNIT
               [] OTHER ->
                  (IF IsUpper(char) THEN MODIFIER_CAPITAL ELSE MODIFIER_UNIT)
                  * (IF common THEN MODIFIER_COMMON ELSE MODIFIER_UNIT)

\* C21: for every character and previous character the worker's character
\* modifier is the result of the rule list, first match winning: REPEATED for an
\* alphanumeric character equal to the previous one whatever the case (so for a
\* repeated capital, common letter or digit too, and not for a repeated space or
\* punctuation mark), else NEWLINE, SPACE, SPECIAL, PUNCTUATION, DIGIT, else 1.0
\* times CAPITAL for a capital and times COMMON for one of "etaoinshrl".
C21_ModifierRuleList ==
    char_delay.computed =>
        /\ char_delay.gui.modifier =
              RuleListModifier(char_delay.char, char_delay.prev_char)
        /\ (char_delay.char = "5" /\ char_delay.prev_char = "5") =>
              char_delay.gui.modifier = MODIFIER_REPEATED * MODIFIER_UNIT
        /\ (char_delay.char = "E" /\ char_delay.prev_char = "e") =>
              char_delay.gui.modifier = MODIFIER_REPEATED * MODIFIER_UNIT
        /\ (char_delay.char = " " /\ char_delay.prev_char = " ") =>
              char_delay.gui.modifier = MODIFIER_SPACE * MODIFIER_UNIT
        /\ (char_delay.char = "." /\ char_delay.prev_char = ".") =>
              char_delay.gui.modifier = MODIFIER_PUNCTUATION * MODIFIER_UNIT
        /\ (char_delay.char = "E" /\ char_delay.prev_char = "p") =>
              char_delay.gui.modifier = MODIFIER_CAPITAL * MODIFIER_COMMON

\* A repeated digit has had its delay computed: the repeated rule, not the
\* digit rule, gave the modifier.
C21_Witness ==
    /\ char_delay.computed
    /\ char_delay.char = "5"
    /\ char_delay.prev_char = "5"
    /\ char_delay.gui.modifier = MODIFIER_REPEATED * MODIFIER_UNIT

\* The main loop types the character at the cursor in this step.
TypesChar == pc = "type" /\ pc' = "sleep"

\* The last keystroke sent after the step.
LastKey == keys'[Len(keys')]

\* How many keystrokes of the main loop are for text index n.
KeysFor(ks, n) == Cardinality({k \in 1..Len(ks) : ks[k].idx = n})

\* C22: only alphanumeric characters are typo candidates: when the main loop
\* types a character that is not alphanumeric (space, newline, tab, punctuation,
\* special) the keystroke sent for that index is the character itself, sent
\* once, nothing is appended to the typo buffer, and no random number is drawn
\* to decide it.
C22_OnlyAlnumCandidates ==
    [][(TypesChar /\ ~IsAlnum(CharAt(i))) =>
          /\ LastKey.idx = i
          /\ LastKey.c = CharAt(i)
          /\ KeysFor(keys', i) = 1
          /\ t_typo_buffer' = <<>>
          /\ typo_draws' = typo_draws]_vars

\* The special character of the second text has been typed after a typo on the
\* digit: the only draws are those of the digit.
C22_Witness ==
    /\ pc = "sleep"
    /\ CharAt(i) = "@"
    /\ keys[Len(keys)].c = "@"
    /\ \E k \in 1..Len(keys) : keys[k].kind = "typo"
    /\ typo_draws = 1

\* C23: when a typo is triggered for a character whose lowercase form is in the
\* adjacency table, the one keystroke sent is a member of that key's adjacency
\* set, in upper case exactly if the intended character is, it differs from the
\* intended character, which is not sent, and exactly the pair (typed wrong,
\* intended) is appended to the end of the typo buffer.
C23_TypoFromAdjacentKeys ==
    [][(/\ TypesChar
        /\ LastKey.kind \in {"typo", "fallback"}
        /\ Lower(CharAt(i)) \in DOMAIN ADJACENT_KEYS) =>
          LET adjacent == ADJACENT_KEYS[Lower(CharAt(i))]
          IN  /\ keys' = Append(keys, LastKey)
              /\ LastKey.idx = i
              /\ LastKey.c # CharAt(i)
              /\ \E n \in 1..Len(adjacent) : Lower(LastKey.c) = adjacent[n]
              /\ IsUpper(CharAt(i)) =>
                    \E n \in 1..Len(adjacent) : LastKey.c = Upper(adjacent[n])
              /\ ~IsUpper(CharAt(i)) =>
                    \E n \in 1..Len(adjacent) : LastKey.c = adjacent[n]
              /\ t_typo_buffer' = Append(t_typo_buffer, <<LastKey.c, CharAt(i)>>)]_vars

\* A typo on the capital letter of the first text: a capital adjacent key was
\* typed and is the one entry of the buffer.
C23_Witness ==
    /\ pc = "sleep"
    /\ CharAt(i) = "P"
    /\ keys = <<TypeChar("O", "typo", 0)>>
    /\ t_typo_buffer = <<<<"O", "P">>>>

\* A typo on the digit of the second text.
C23_DigitWitness ==
    /\ pc = "sleep"
    /\ CharAt(i) = "1"
    /\ t_typo_buffer = <<<<"q", "1">>>>

\* C24: when a typo is selected for an alphanumeric character with no adjacency
\* entry, the intended character is sent exactly once, nothing is appended to
\* the typo buffer, the run goes on, and the streak is updated as after a
\* character typed without a typo: decayed, not set to TYPO_STREAK_PROBABILITY.
C24_FallbackWithoutAdjacency ==
    [][(/\ TypesChar
        /\ LastKey.kind \in {"typo", "fallback"}
        /\ IsAlnum(CharAt(i))
        /\ Lower(CharAt(i)) \notin DOMAIN ADJACENT_KEYS) =>
          LET decayed == (t_typo_streak * TYPO_STREAK_DECAY_NUM)
                             \div TYPO_STREAK_DECAY_DEN
          IN  /\ keys' = Append(keys, LastKey)
              /\ LastKey.c = CharAt(i)
              /\ KeysFor(keys', i) = 1
              /\ t_typo_buffer' = t_typo_buffer
              /\ t_typo_streak' = IF decayed < STREAK_EPSILON THEN 0 ELSE decayed
              /\ t_typo_streak' < TYPO_STREAK_PROBABILITY
              /\ pc' = "sleep"]_vars

\* The non-ASCII letter of the first text was typed on the fallback path right
\* after a typo on the capital letter: the streak has decayed once and the
\* buffer still holds the one typo.
C24_Witness ==
    /\ pc = "sleep"
    /\ CharAt(i) = Hangul
    /\ keys[Len(keys)] = TypeChar(Hangul, "fallback", i)
    /\ Len(t_typo_buffer) = 1
    /\ t_typo_streak > 0
    /\ t_typo_streak < TYPO_STREAK_PROBABILITY

\* The keystrokes the claim gives a correction of the pending typos: one
\* backspace for each, then the intended character of each in order; none for
\* an empty buffer.
CorrectionKeys ==
    [k \in 1..(2 * Len(t_typo_buffer)) |->
        IF k <= Len(t_typo_buffer)
        THEN Backspace
        ELSE [kind |-> "retype", c |-> t_typo_buffer[k - Len(t_typo_buffer)][2],
              idx |-> -1,
              via |-> TypeChar(t_typo_buffer[k - Len(t_typo_buffer)][2],
                               "retype", -1).via]]

\* C25: the correction changes only the typo buffer, which it empties, and the
\* typed surface.  On each of the two steps that run it (a character typed
\* with no typo selected, the end of the text) the keystrokes are the backspaces
\* and the intended characters of the pending typos followed by what the rest of
\* the step sends, none for an empty buffer; cursor, previous character, rhythm
\* and direction are unchanged; the streak is what the rest of the step makes
\* of the old streak; no typo decision is drawn but the one of the character
\* typed; and the only notifications are those of the character typed or of
\* the end.
C25_CorrectionFrame ==
    [][/\ (TypesChar /\ LastKey.kind = "char") =>
             /\ keys' = (keys \o CorrectionKeys) \o <<LastKey>>
             /\ LastKey.c = CharAt(i)
             /\ t_typo_buffer' = <<>>
             /\ UNCHANGED <<t_current_pos, t_prev_char, t_rhythm,
                            t_rhythm_direction>>
             /\ t_typo_streak' =
                   LET decayed == (t_typo_streak * TYPO_STREAK_DECAY_NUM)
                                      \div TYPO_STREAK_DECAY_DEN
                   IN  IF decayed < STREAK_EPSILON THEN 0 ELSE decayed
             /\ typo_draws' = IF IsAlnum(CharAt(i)) THEN typo_draws + 1
                              ELSE typo_draws
             /\ notes' = notes \o <<CharTyped(CharAt(i)), Progress(i + 1, Total)>>
       /\ (pc = "loop" /\ pc' = "finished") =>
             /\ keys' = keys \o CorrectionKeys
             /\ t_typo_buffer' = <<>>
             /\ UNCHANGED <<t_current_pos, t_prev_char, t_rhythm,
                            t_rhythm_direction, t_typo_streak, typo_draws>>
             /\ notes' = Append(notes, FinishedTyping)]_vars

\* The text ended on a typo and the correction at the end has retyped it: the
\* streak is still the one the typo set.
C25_Witness ==
    /\ pc = "finished"
    /\ keys # <<>>
    /\ keys[Len(keys)].kind = "retype"
    /\ t_typo_buffer = <<>>
    /\ t_typo_streak = TYPO_STREAK_PROBABILITY

\* The text ended with nothing pending: the run finished without a backspace.
C25_EmptyWitness ==
    /\ pc = "finished"
    /\ keys # <<>>
    /\ \A k \in 1..Len(keys) : keys[k].kind = "char"

\* C26: when a run from start_pos has completed with finished_typing, replaying
\* all its keystrokes onto an empty surface yields exactly text[start_pos:].
C26_ReplayYieldsText ==
    pc = "finished" => Replay(keys) = SubSeq(t_text, t_start_pos + 1, Total)

\* What holds of the replay: a completed run in which no character was typed on
\* the fallback path leaves exactly text[start_pos:].
C26_ReplayWithoutFallback ==
    (/\ pc = "finished"
     /\ \A k \in 1..Len(keys) : keys[k].kind # "fallback")
    => Replay(keys) = SubSeq(t_text, t_start_pos + 1, Total)

\* C27: over a stop and a resume on unchanged text ending in completion,
\* replaying the keystrokes of both sessions onto an empty surface yields
\* exactly the text: no wrong character typed before the stop remains on the
\* surface after the resumed session has finished.
C27_ResumeLeavesText ==
    (/\ pc = "finished"
     /\ prev.exists
     /\ prev.outcome = "stopped"
     /\ prev.start_pos = 0
     /\ prev.text = t_text)
    => ReplayOnto(prev.surface, keys) = t_text

\* The first session typed 'o' for the first 'p' of "pp" and was stopped at
\* index 1 with the typo pending; the resumed session typed index 1 and
\* finished: the surface holds "op".
C27_WrongCharRemains ==
    /\ pc = "finished"
    /\ t_text = <<"p", "p">>
    /\ prev.exists
    /\ prev.outcome = "stopped"
    /\ prev.stopped_at = 1
    /\ prev.surface = <<"o">>
    /\ t_start_pos = 1
    /\ keys = <<TypeChar("p", "char", 1)>>
    /\ ReplayOnto(prev.surface, keys) = <<"o", "p">>

\* How many of the signals emitted are terminal ones.
TerminalNotes ==
    Cardinality({n \in 1..Len(notes) :
                    notes[n].sig \in {"stopped_at", "finished_typing"}})

\* C28: every run on a finite text returns; while it runs it has emitted no
\* terminal signal, and once it has returned it has emitted exactly one,
\* finished_typing or stopped_at, as its last signal; no keystroke and no signal
\* follows it; and a run whose start position is the length of the text emits
\* finished_typing without a keystroke, whether or not the stop flag is set.
C28_OneTerminalNotification ==
    /\ <>(pc \in {"stopped", "finished"})
    /\ [](IsRunning => TerminalNotes = 0)
    /\ [](pc \in {"stopped", "finished"} => (Terminated /\ TerminalNotes = 1))
    /\ [][(pc \in {"stopped", "finished"}) =>
             (pc' = pc /\ keys' = keys /\ notes' = notes)]_vars
    /\ []((t_start_pos >= Total /\ ~IsRunning) =>
             (pc = "finished" /\ keys = <<>> /\ notes = <<FinishedTyping>>))

\* A run from the end of a text has returned with the stop flag set: it
\* reported finished_typing and typed nothing.
C28_Witness ==
    /\ pc = "finished"
    /\ Total > 0
    /\ t_start_pos = Total
    /\ t_stop_flag
    /\ keys = <<>>
    /\ notes = <<FinishedTyping>>

\* C29: at most one worker of the controller is running at any time: whenever
\* the controller starts a worker (Start button, Ctrl+Return, resume), the
\* worker it held before, if any, has returned from run(), so that all of its
\* keystrokes come before the first keystroke of the new one.
C29_OneWorkerRunning ==
    [][(runs' = runs + 1) =>
          /\ ~IsRunning
          /\ keys' = <<>>
          /\ h_typing_thread = "thread" => pc \in {"stopped", "finished"}]_vars

\* The shortcut was used while a worker was typing: that worker was stopped,
\* the controller waited for it, and the second worker is now running.
C29_Witness ==
    /\ runs = 2
    /\ IsRunning
    /\ prev.exists
    /\ prev.outcome = "stopped"
    /\ prev.stop_flag
    /\ prev.typed # <<>>
    /\ keys # <<>>

\* C30: the delay model of the command line tool and that of the worker are the
\* same function: for every character and previous character the two character
\* modifiers are equal, for the same draws the two rhythm updates give the same
\* rhythm and direction, and so, with the same bounds and no typo selected, both
\* compute the same delay for every character of the same text.
C30_SameDelayModel ==
    /\ c_rhythm = t_rhythm
    /\ c_rhythm_direction = t_rhythm_direction
    /\ c_prev_char = t_prev_char
    /\ char_delay.computed =>
          /\ char_delay.cli.modifier = char_delay.gui.modifier
          /\ char_delay.cli.rhythm = char_delay.gui.rhythm
          /\ char_delay.cli.base_delay = char_delay.gui.base_delay
          /\ char_delay.cli = char_delay.gui

\* Both programs have computed the delay of a capital common letter after a
\* different character, with the rhythm away from its start, and both rhythms
\* have since bounced off the lower bound.
C30_Witness ==
    /\ char_delay.computed
    /\ char_delay.char = "E"
    /\ char_delay.prev_char = "p"
    /\ char_delay.cli.modifier = MODIFIER_CAPITAL * MODIFIER_COMMON
    /\ char_delay.cli.rhythm < RHYTHM_START
    /\ c_rhythm = RHYTHM_MIN
    /\ c_rhythm_direction = 1

\* How many of the main loop's latest keystrokes were not typos, in a row.
RECURSIVE TrailingNonTypos(_)
TrailingNonTypos(main) ==
    IF main = <<>> \/ main[Len(main)].kind = "typo"
    THEN 0
    ELSE 1 + TrailingNonTypos(SubSeq(main, 1, Len(main) - 1))

\* C32: after a typo the streak is exactly 0 once 8 characters in a row have
\* been typed without a typo (with TYPO_STREAK_PROBABILITY 0.35 and
\* TYPO_STREAK_DECAY 0.6), and at every state the streak is exactly 0 or at
\* least 0.01, so that the effective typo probability is TYPO_PROBABILITY again.
C32_StreakReturnsToZero ==
    /\ t_typo_streak = 0 \/ t_typo_streak >= STREAK_EPSILON
    /\ TrailingNonTypos(MainKeys(keys)) >= 8 => t_typo_streak = 0
    /\ t_typo_streak = 0 =>
          \A r \in TypoDraws :
             ShouldMakeTypo("p", t_typo_streak, r) <=> r < TYPO_PROBABILITY

\* A typo on the first letter, then eight characters typed without a typo: the
\* streak is 0.
C32_Witness ==
    /\ Len(keys) >= 9
    /\ keys[1].kind = "typo"
    /\ TrailingNonTypos(MainKeys(keys)) = 8
    /\ t_typo_streak = 0
    /\ pc = "sleep"

\* Six characters without a typo after a typo: the streak is still above 0.
C32_StillDecaying ==
    /\ keys # <<>>
    /\ keys[1].kind = "typo"
    /\ TrailingNonTypos(MainKeys(keys)) = 6
    /\ t_typo_streak > 0

\* What the status label says after a Start request that did not start.
FailedStart == {"No text to type", "No target window", "Window not found"}

\* C33: a Start request with empty text, with no target window, or whose
\* window activation fails creates no worker, sends no keystroke, leaves the
\* saved cursor unchanged, and leaves Start enabled, Stop disabled and the text
\* editable.
C33_FailedStartRequest ==
    [][(h_status' \in FailedStart /\ h_status' # h_status) =>
          /\ runs' = runs
          /\ h_typing_thread' = h_typing_thread
          /\ UNCHANGED thread_vars
          /\ h_current_pos' = h_current_pos
          /\ start_enabled'
          /\ ~stop_enabled'
          /\ edit_enabled'
          /\ h_status' = "No text to type" => edit_text = <<>>
          /\ h_status' = "No target window" => h_window = "none"]_vars

\* The activation failed for a resume: the paused position is still saved and
\* the controls are idle.
C33_Witness ==
    /\ h_status = "Window not found"
    /\ h_current_pos > 0
    /\ h_typing_thread = "none"
    /\ start_enabled
    /\ ~stop_enabled
    /\ edit_enabled

\* A request with no text, and one with no target window.
C33_NoTextWitness == h_status = "No text to type" /\ start_enabled

C33_NoWindowWitness ==
    /\ h_status = "No target window"
    /\ edit_text # <<>>
    /\ runs = 0
    /\ start_enabled

\* The characters the keys after the first put into the focused application.
RECURSIVE EmittedText(_)
EmittedText(ks) ==
    IF ks = <<>> THEN <<>> ELSE <<Emitted(Head(ks))>> \o EmittedText(Tail(ks))

\* C31: human_type presses ESC once, before the first character, and then
\* sends one key per character of the text, in text order, each giving that
\* character, with no wrong character and no backspace; it leaves its loop only
\* after the last character, and once called it always gets there.
C31_HumanTypeTypesAll ==
    /\ [](c_pc = "typing" =>
            /\ Len(c_keys) = c_i + 1
            /\ c_keys[1] = Esc
            /\ \A k \in 2..Len(c_keys) :
                  /\ c_keys[k].kind = "char"
                  /\ c_keys[k].idx = k - 2
            /\ EmittedText(Tail(c_keys)) = SubSeq(c_text, 1, c_i))
    /\ [][(c_pc = "typing" /\ c_pc' # "typing") =>
            /\ c_i = Len(c_text)
            /\ c_keys' = c_keys
            /\ EmittedText(Tail(c_keys)) = c_text]_vars
    /\ [](c_pc = "typing" => <>(c_pc # "typing"))

\* human_type has returned after a text with a capital letter and a character
\* of shift_chars.
C31_Witness ==
    /\ c_pc = "returned"
    /\ c_text = <<"P", "@">>
    /\ Len(c_keys) = 3
    /\ c_ret = 0

\* main was given a file, stdin or a text to type.
InputGiven == c_args.mode \in {"file", "stdin", "text"}

\* main was given a file that does not exist, a text that is empty or white
\* space only, or a window that cannot be activated.
Refused ==
    \/ c_args.mode = "file" /\ ~c_args.file_exists
    \/ IsBlank(c_args.text)
    \/ c_args.window = "notfound"

C34_ExceptEmptyTextOption ==
    (c_pc = "returned" /\ ~(c_args.mode = "text" /\ c_args.text = <<>>)) =>
        /\ (InputGiven /\ Refused) => (c_ret = 1 /\ c_keys = <<>>)
        /\ (InputGiven /\ ~Refused) =>
              (c_ret = 0 /\ c_keys # <<>> /\ EmittedText(Tail(c_keys)) = c_args.text)
        /\ c_args.mode \in {"list_windows", "none"} => (c_ret = 0 /\ c_keys = <<>>)

\* main has returned 0 for -t with the empty text.
C34_EmptyTextReturnsZero ==
    /\ c_pc = "returned"
    /\ c_args.mode = "text"
    /\ c_args.text = <<>>
    /\ c_ret = 0

\* main has returned 1 for an empty file and for empty stdin.
C34_EmptyFileReturnsOne ==
    /\ c_pc = "returned"
    /\ c_args.mode \in {"file", "stdin"}
    /\ c_args.file_exists
    /\ c_args.text = <<>>
    /\ c_ret = 1

C35_OnceWithDelete ==
    (c_args.mode = "watch" /\ c_args.delete_after) =>
        /\ \A a \in 1..Len(typed), b \in 1..Len(typed) :
              typed[a].id = typed[b].id => a = b
        /\ \A a \in 1..Len(typed) : ~IsBlank(typed[a].text)

\* Without the delete option, the first appearance of the file has been typed
\* twice and the file was never replaced.
C35_TypedTwice ==
    /\ c_args.mode = "watch"
    /\ ~c_args.delete_after
    /\ c_pc = "watching"
    /\ watched.id = 1
    /\ Len(typed) = 2
    /\ typed[1].id = 1
    /\ typed[2].id = 1

\* With the delete option, a file written while the one before it was typed
\* has been removed without being typed.
C35_ReplacementRemovedUntyped ==
    /\ c_args.mode = "watch"
    /\ c_args.delete_after
    /\ c_args.window = "none"
    /\ c_pc = "watching"
    /\ watched.id = 2
    /\ ~watched.exists
    /\ ~IsBlank(watched.text)
    /\ \A a \in 1..Len(typed) : typed[a].id = 1

====
